---- MODULE Spec2Model ----
(***************************************************************************)
(* A model of the py-slang chunk evaluator: the resolver, the CSE machine  *)
(* (Control, Stash, Environments) and the chunk driver evaluateChunk.      *)
(* Programs are given as the AST the parser builds for their source text.  *)
(***************************************************************************)
EXTENDS Integers, Sequences, FiniteSets, TLC

(***************************************************************************)
(* Bounds                                                                  *)
(***************************************************************************)
\* number of chunks the host sends to one evaluator
MaxChunks == 2
\* the largest whole number written in a generated chunk
MaxOperand == 3

MaxEvaluators == 2
\* options.stepLimit and options.envSteps of the runs of the model (100000 in
\* defaultOptions)
stepLimit == 10
\* the number of steps after which a run of LimitSpec is left alone
MaxSteps == 40

(***************************************************************************)
(* Generic helpers                                                         *)
(***************************************************************************)
\* the sequence itself, not reversed
Unreversed(s) == s

RECURSIVE Reverse(_)
Reverse(s) == IF s = <<>> THEN <<>> ELSE Append(Reverse(Tail(s)), Head(s))

Front(s) == SubSeq(s, 1, Len(s) - 1)

Last(s) == s[Len(s)]

Abs(n) == IF n < 0 THEN -n ELSE n

RECURSIVE Gcd(_, _)
Gcd(a, b) == IF b = 0 THEN a ELSE Gcd(b, a % b)

(***************************************************************************)
(* AST nodes (ExprNS / StmtNS).  Every node carries its constructor name   *)
(* in kind; tokens are reduced to their lexeme (names) or type (operators).*)
(***************************************************************************)
BigIntLiteral(v) == [kind |-> "BigIntLiteral", value |-> v]

\* Literal with typeof value === 'string'
StrLiteral(s) == [kind |-> "Literal", jstype |-> "string", svalue |-> s]

Variable(n) == [kind |-> "Variable", name |-> n]

Grouping(e) == [kind |-> "Grouping", expression |-> e]

Complex(re, im) == [kind |-> "Complex", real |-> re, imag |-> im]

Unary(op, r) == [kind |-> "Unary", operator |-> op, right |-> r]

Binary(l, op, r) == [kind |-> "Binary", left |-> l, operator |-> op, right |-> r]

Compare(l, op, r) == [kind |-> "Compare", left |-> l, operator |-> op, right |-> r]

BoolOp(l, op, r) == [kind |-> "BoolOp", left |-> l, operator |-> op, right |-> r]

Call(callee, args) == [kind |-> "Call", callee |-> callee, args |-> args]

Ternary(p, c, a) == [kind |-> "Ternary", predicate |-> p, consequent |-> c, alternative |-> a]

Lambda(params, body) == [kind |-> "Lambda", parameters |-> params, body |-> body]

FileInput(stmts) == [kind |-> "FileInput", statements |-> stmts]

SimpleExpr(e) == [kind |-> "SimpleExpr", expression |-> e]

Assign(n, v) == [kind |-> "Assign", name |-> n, value |-> v]

FunctionDef(n, params, body) == [kind |-> "FunctionDef", name |-> n, parameters |-> params, body |-> body]

Return(v) == [kind |-> "Return", value |-> v]

NonLocal(n) == [kind |-> "NonLocal", name |-> n]

FromImport(module, names) == [kind |-> "FromImport", module |-> module, names |-> names]

If(c, body, els) == [kind |-> "If", condition |-> c, body |-> body, elseBlock |-> els]

(***************************************************************************)
(* Values of the interpreter                                               *)
(***************************************************************************)
\* what Stack.pop() / peek() gives on an empty stack
JsUndefined == [type |-> "js_undefined"]

VUndefined == [type |-> "undefined"]

VBigInt(n) == [type |-> "bigint", value |-> n]

VBool(b) == [type |-> "bool", bvalue |-> b]

VString(s) == [type |-> "string", svalue |-> s]

\* a JS number, kept as the reduced fraction num/den with den > 0
VNumber(n, d) ==
  LET g == Gcd(Abs(n), Abs(d))
      s == IF d < 0 THEN -1 ELSE 1
  IN [type |-> "number", num |-> (s * n) \div g, den |-> (s * d) \div g]

VError(msg) == [type |-> "error", message |-> msg]

NoError == [name |-> "none", message |-> ""]

(***************************************************************************)
(* The parser.  A token is the record of its type and its lexeme; the      *)
(* lexeme of a BIGINT token is kept as the integer it spells, that of a    *)
(* NUMBER or COMPLEX token as the pair of numbers it spells.  The parser   *)
(* is the record of its tokens and the index of the current one (from 1),  *)
(* with the node the last rule returned, the array the running loop fills  *)
(* and the error thrown (NoError while none is).  The messages are kept    *)
(* without the source line and the lexeme found; an operator token is     *)
(* kept in its node as its lexeme.                                         *)
(***************************************************************************)
\* the methods of Parser named after the production rules; rule* is the
\* loop of rule.  A rule called on a parser that has thrown is skipped.
RECURSIVE Parser(_, _)
Parser(rule, p) ==
  LET peek(q) == q.tokens[q.current]
      previous(q) == q.tokens[q.current - 1]
      check(q, types) == peek(q).type # "ENDMARKER" /\ peek(q).type \in types
      advance(q) == IF peek(q).type = "ENDMARKER" THEN q ELSE [q EXCEPT !.current = @ + 1]
      threw(q) == q.error.name # "none"
      throw(q, name, message) ==
        IF threw(q) THEN q ELSE [q EXCEPT !.error = [name |-> name, message |-> message]]
      consume(q, type, message) ==
        IF threw(q) THEN q
        ELSE IF check(q, {type}) THEN advance(q)
        ELSE throw(q, "ExpectedTokenError", "^ " \o message \o ".")
      call(q, r) == IF threw(q) THEN q ELSE Parser(r, q)
      return(q, node) == IF threw(q) THEN q ELSE [q EXCEPT !.node = node]
      PSEUD_NAMES == { "TRUE", "FALSE", "NONE" }
      SPECIAL_IDENTIFIER_TOKENS ==
        { "AND", "OR", "WHILE", "FOR", "NONE", "IS", "NOT", "PASS", "DEF", "LAMBDA", "FROM",
          "TRUE", "FALSE", "BREAK", "CONTINUE", "RETURN", "ASSERT", "IMPORT", "GLOBAL",
          "NONLOCAL", "IF", "ELIF", "ELSE", "IN" }
      operand == [or_test |-> "and_test", and_test |-> "not_test",
                  comparison |-> "arith_expr", arith_expr |-> "term", term |-> "factor"]
      operators == [or_test |-> { "OR" }, and_test |-> { "AND" },
                    comparison |-> { "LESS", "GREATER", "DOUBLEEQUAL", "GREATEREQUAL",
                                     "LESSEQUAL", "NOTEQUAL", "IS", "ISNOT", "IN", "NOTIN" },
                    arith_expr |-> { "PLUS", "MINUS" },
                    term |-> { "STAR", "SLASH", "PERCENT", "DOUBLESLASH" }]
      loops == [or_test |-> "or_test*", and_test |-> "and_test*",
                comparison |-> "comparison*", arith_expr |-> "arith_expr*", term |-> "term*"]
      t == peek(p).type
  IN CASE rule = "file_input" -> Parser("file_input*", [p EXCEPT !.array = <<>>])
       [] rule = "file_input*" ->
            IF t = "ENDMARKER" THEN return(p, FileInput(p.array))
            ELSE IF check(p, { "NEWLINE", "DEDENT" }) THEN Parser("file_input*", advance(p))
            ELSE LET r == Parser("stmt", p)
                 IN IF threw(r) THEN r
                    ELSE Parser("file_input*", [r EXCEPT !.array = Append(p.array, r.node)])
       [] rule = "stmt" ->
            IF check(p, { "DEF", "FOR", "IF", "WHILE" })
              THEN Parser(CASE t = "IF" -> "if_stmt"
                            [] t = "WHILE" -> "while_stmt"
                            [] t = "FOR" -> "for_stmt"
                            [] OTHER -> "funcdef",
                          advance(p))
            ELSE IF check(p, { "NAME", "NUMBER", "PASS", "BREAK", "CONTINUE", "MINUS", "PLUS",
                               "INDENT", "DEDENT", "RETURN", "FROM", "GLOBAL", "NONLOCAL",
                               "ASSERT", "LPAR", "STRING", "BIGINT" }
                               \cup PSEUD_NAMES \cup SPECIAL_IDENTIFIER_TOKENS)
              THEN Parser("simple_stmt", p)
            ELSE throw(p, "GenericUnexpectedSyntaxError", " Detected invalid syntax.")
       [] rule = "if_stmt" ->
            LET cond == Parser("test", p)
                block == call(consume(cond, "COLON", "Expected ':' after if"), "suite")
                elseStmt ==
                  IF check(block, { "ELIF" })
                    THEN LET r == Parser("if_stmt", advance(block)) IN return(r, << r.node >>)
                  ELSE IF check(block, { "ELSE" })
                    THEN call(consume(advance(block), "COLON", "Expect ':' after else"), "suite")
                  ELSE throw(block, "ExpectedTokenError",
                             "^ Expected else block after this if block.")
            IN IF threw(block) THEN block
               ELSE return(elseStmt, If(cond.node, block.node, elseStmt.node))
       [] rule = "while_stmt" ->
            LET cond == Parser("test", p)
                block == call(consume(cond, "COLON", "Expected ':' after while"), "suite")
            IN return(block, [kind |-> "While", condition |-> cond.node, body |-> block.node])
       [] rule = "for_stmt" ->
            LET target == previous(advance(p)).lexeme
                iter == call(consume(advance(p), "IN", "Expected in after for"), "test")
                block == call(consume(iter, "COLON", "Expected ':' after for"), "suite")
            IN return(block, [kind |-> "For", target |-> target, iter |-> iter.node,
                              body |-> block.node])
       [] rule = "funcdef" ->
            LET name == previous(advance(p)).lexeme
                args == Parser("parameters", advance(p))
                block == call(consume(args, "COLON", "Expected ':' after def"), "suite")
            IN return(block, FunctionDef(name, args.node, block.node))
       [] rule = "simple_stmt" ->
            LET q == advance(p)
                res ==
                  CASE t = "NAME" -> Parser("assign_stmt", q)
                    [] t \in { "INDENT", "DEDENT", "PASS", "BREAK", "CONTINUE" } ->
                         return(q, [kind |-> CASE t = "INDENT" -> "Indent"
                                               [] t = "DEDENT" -> "Dedent"
                                               [] t = "PASS" -> "Pass"
                                               [] t = "BREAK" -> "Break"
                                               [] OTHER -> "Continue"])
                    [] t = "RETURN" ->
                         IF check(q, { "NEWLINE" }) THEN return(q, Return([kind |-> "null"]))
                         ELSE LET r == Parser("test", q) IN return(r, Return(r.node))
                    [] t = "FROM" -> Parser("import_from", q)
                    [] t = "GLOBAL" ->
                         return(advance(q), [kind |-> "Global",
                                             name |-> previous(advance(q)).lexeme])
                    [] t = "NONLOCAL" ->
                         return(advance(q), NonLocal(previous(advance(q)).lexeme))
                    [] t = "ASSERT" ->
                         LET r == Parser("test", q)
                         IN return(r, [kind |-> "Assert", value |-> r.node])
                    [] t \in ({ "LPAR", "NUMBER", "STRING", "BIGINT", "MINUS", "PLUS" }
                                \cup SPECIAL_IDENTIFIER_TOKENS)
                            \ { "PASS", "BREAK", "CONTINUE", "RETURN", "FROM", "GLOBAL",
                                "NONLOCAL", "ASSERT" } ->
                         LET r == Parser("test", p) IN return(r, SimpleExpr(r.node))
                    [] OTHER -> throw(p, "Error", "Unreachable code path")
            IN consume(res, "NEWLINE", "Expected newline")
       [] rule = "assign_stmt" ->
            LET name == previous(p).lexeme
            IN IF check(p, { "COLON" })
                 THEN LET ann == Parser("test", p)
                          expr == call(consume(ann, "EQUAL", "Expect equal in assignment"),
                                       "test")
                      IN return(expr, [kind |-> "AnnAssign", name |-> name,
                                       value |-> expr.node, ann |-> ann.node])
               ELSE IF check(p, { "EQUAL" })
                 THEN LET expr == Parser("test", advance(p))
                      IN return(expr, Assign(name, expr.node))
               ELSE LET expr == Parser("test", [p EXCEPT !.current = @ - 1])
                    IN return(expr, SimpleExpr(expr.node))
       [] rule = "import_from" ->
            LET module == previous(advance(p)).lexeme
                q == consume(advance(p), "IMPORT", "Expected import keyword")
                params == IF threw(q) THEN q
                          ELSE IF check(q, { "NAME" })
                            THEN return(advance(q), << peek(q).lexeme >>)
                          ELSE Parser("parameters", q)
            IN return(params, FromImport(module, params.node))
       [] rule = "parameters" ->
            LET res == call(consume(p, "LPAR", "Expected opening parentheses"),
                            "varparamslist")
            IN return(consume(res, "RPAR", "Expected closing parentheses"), res.node)
       [] rule = "test" ->
            IF check(p, { "LAMBDA" }) THEN Parser("lambdef", advance(p))
            ELSE LET consequent == Parser("or_test", p)
                     predicate == Parser("or_test", advance(consequent))
                     alternative == call(consume(predicate, "ELSE", "Expected else"), "test")
                 IN IF threw(consequent) \/ ~check(consequent, { "IF" }) THEN consequent
                    ELSE return(alternative, Ternary(predicate.node, consequent.node,
                                                     alternative.node))
       [] rule = "lambdef" ->
            LET args == Parser("varparamslist", p)
            IN IF threw(args) THEN args
               ELSE IF check(args, { "COLON" })
                 THEN LET test == Parser("test", advance(args))
                      IN return(test, Lambda(args.node, test.node))
               ELSE IF check(args, { "DOUBLECOLON" })
                 THEN LET block == Parser("suite", advance(args))
                      IN return(block, [kind |-> "MultiLambda", parameters |-> args.node,
                                        body |-> block.node])
               ELSE consume(args, "COLON", "Expected ':' after lambda")
       [] rule = "suite" ->
            IF check(p, { "NEWLINE" })
              THEN LET q == consume(advance(p), "INDENT", "Expected indent")
                   IN call([q EXCEPT !.array = <<>>], "suite*")
              ELSE return(p, <<>>)
       [] rule = "suite*" ->
            IF check(p, { "DEDENT" }) THEN return(advance(p), p.array)
            ELSE LET r == Parser("stmt", p)
                 IN IF threw(r) THEN r
                    ELSE Parser("suite*", [r EXCEPT !.array = Append(p.array, r.node)])
       [] rule = "varparamslist" -> Parser("varparamslist*", [p EXCEPT !.array = <<>>])
       [] rule = "varparamslist*" ->
            IF check(p, { "COLON", "RPAR" }) THEN return(p, p.array)
            ELSE LET q == consume(p, "NAME", "Expected a proper identifier in parameter")
                     params == Append(p.array, peek(p).lexeme)
                 IN IF threw(q) THEN q
                    ELSE IF check(q, { "COMMA" })
                      THEN Parser("varparamslist*", [advance(q) EXCEPT !.array = params])
                    ELSE return(q, params)
       [] rule \in DOMAIN loops -> call(Parser(operand[rule], p), loops[rule])
       [] rule \in { loops[r] : r \in DOMAIN loops } ->
            LET base == CHOOSE r \in DOMAIN loops : loops[r] = rule
                right == Parser(operand[base], advance(p))
                operator == peek(p).lexeme
                expr == IF base \in { "or_test", "and_test" }
                          THEN BoolOp(p.node, operator, right.node)
                        ELSE IF base = "comparison"
                          THEN Compare(p.node, operator, right.node)
                        ELSE Binary(p.node, operator, right.node)
            IN IF ~check(p, operators[base]) THEN p ELSE call(return(right, expr), rule)
       [] rule = "not_test" ->
            IF check(p, { "NOT", "BANG" })
              THEN LET right == Parser("not_test", advance(p))
                   IN return(right, Unary(peek(p).lexeme, right.node))
              ELSE Parser("comparison", p)
       [] rule = "factor" ->
            IF check(p, { "PLUS", "MINUS" })
              THEN LET factor == Parser("factor", advance(p))
                   IN return(factor, Unary(peek(p).lexeme, factor.node))
              ELSE Parser("power", p)
       [] rule = "power" ->
            LET expr == Parser("atom_expr", p)
                right == Parser("factor", advance(expr))
            IN IF threw(expr) \/ ~check(expr, { "DOUBLESTAR" }) THEN expr
               ELSE return(right, Binary(expr.node, peek(expr).lexeme, right.node))
       [] rule = "atom_expr" -> call(Parser("atom", p), "atom_expr*")
       [] rule = "atom_expr*" ->
            IF ~check(p, { "LPAR" }) THEN p
            ELSE LET args == Parser("arglist", advance(p))
                 IN call(return(args, Call(p.node, args.node)), "atom_expr*")
       [] rule = "arglist" -> Parser("arglist*", [p EXCEPT !.array = <<>>])
       [] rule = "arglist*" ->
            LET last == "Expected closing ')' after function application"
                arg == Parser("test", p)
                args == Append(p.array, arg.node)
            IN IF check(p, { "RPAR" }) THEN return(consume(p, "RPAR", last), p.array)
               ELSE IF threw(arg) THEN arg
               ELSE IF check(arg, { "COMMA" })
                 THEN Parser("arglist*", [advance(arg) EXCEPT !.array = args])
               ELSE return(consume(arg, "RPAR", last), args)
       [] rule = "atom" ->
            LET q == advance(p)
                lexeme == peek(p).lexeme
            IN CASE t \in { "TRUE", "FALSE" } ->
                      return(q, [kind |-> "Literal", jstype |-> "boolean",
                                 bvalue |-> (t = "TRUE")])
                 [] t = "NONE" -> return(q, [kind |-> "None"])
                 [] t = "STRING" -> return(q, StrLiteral(lexeme))
                 [] t = "NUMBER" ->
                      return(q, [kind |-> "Literal", jstype |-> "number",
                                 num |-> lexeme[1], den |-> lexeme[2]])
                 [] t = "BIGINT" -> return(q, BigIntLiteral(lexeme))
                 [] t = "COMPLEX" -> return(q, Complex(lexeme[1], lexeme[2]))
                 [] t = "NAME" -> return(q, Variable(lexeme))
                 [] t = "LPAR" ->
                      LET expr == Parser("test", q)
                      IN return(consume(expr, "RPAR", "Expected closing ')'"),
                                Grouping(expr.node))
                 [] OTHER -> throw(p, "GenericUnexpectedSyntaxError",
                                   " Detected invalid syntax.")

\* new Parser(script, tokens).parse()
parse(scanned) ==
  Parser("file_input", [tokens |-> scanned, current |-> 1, node |-> [kind |-> "null"],
                        array |-> <<>>, error |-> NoError])

(***************************************************************************)
(* The chunks the host may send: the AST Parser.parse builds for the       *)
(* source text quoted above each one.                                      *)
(***************************************************************************)
Chunks ==
  <<
     \* chunk 1 (Sum):
     \*   x = 3
     \*   y = 4
     \*   x + y
     FileInput(<< Assign("x", BigIntLiteral(3)),
                  Assign("y", BigIntLiteral(4)),
                  SimpleExpr(Binary(Variable("x"), "+", Variable("y"))) >>),
     \* chunk 2 (UseX):
     \*   x
     FileInput(<< SimpleExpr(Variable("x")) >>),
     \* chunk 3 (AssignOnly):
     \*   z = 2
     FileInput(<< Assign("z", BigIntLiteral(2)) >>),
     \* chunk 4 (DivInCall):
     \*   def d():
     \*       return 1 // 0
     \*   d()
     FileInput(<< FunctionDef("d", <<>>,
                    << Return(Binary(BigIntLiteral(1), "//", BigIntLiteral(0))) >>),
                  SimpleExpr(Call(Variable("d"), <<>>)) >>),
     \* chunk 5 (PrintInArg):
     \*   def f():
     \*       print(1)
     \*       return 2
     \*   def g(a):
     \*       return a
     \*   g(f())
     FileInput(<< FunctionDef("f", <<>>,
                    << SimpleExpr(Call(Variable("print"), << BigIntLiteral(1) >>)),
                       Return(BigIntLiteral(2)) >>),
                  FunctionDef("g", << "a" >>, << Return(Variable("a")) >>),
                  SimpleExpr(Call(Variable("g"), << Call(Variable("f"), <<>>) >>)) >>),
     \* chunk 6 (Nested):
     \*   def h(n):
     \*       return n
     \*   def k(n):
     \*       m = h(n)
     \*       return m + 1
     \*   def p():
     \*       1
     \*   p()
     \*   k(1)
     FileInput(<< FunctionDef("h", << "n" >>, << Return(Variable("n")) >>),
                  FunctionDef("k", << "n" >>,
                    << Assign("m", Call(Variable("h"), << Variable("n") >>)),
                       Return(Binary(Variable("m"), "+", BigIntLiteral(1))) >>),
                  FunctionDef("p", <<>>, << SimpleExpr(BigIntLiteral(1)) >>),
                  SimpleExpr(Call(Variable("p"), <<>>)),
                  SimpleExpr(Call(Variable("k"), << BigIntLiteral(1) >>)) >>),
     \* chunk 7 (UnboundNoOuter):
     \*   def g():
     \*       print(x)
     \*       x = 5
     \*   g()
     FileInput(<< FunctionDef("g", <<>>,
                    << SimpleExpr(Call(Variable("print"), << Variable("x") >>)),
                       Assign("x", BigIntLiteral(5)) >>),
                  SimpleExpr(Call(Variable("g"), <<>>)) >>),
     \* chunk 8 (UnboundOuter):
     \*   x = 1
     \*   def g():
     \*       print(x)
     \*       x = 5
     \*   g()
     FileInput(<< Assign("x", BigIntLiteral(1)),
                  FunctionDef("g", <<>>,
                    << SimpleExpr(Call(Variable("print"), << Variable("x") >>)),
                       Assign("x", BigIntLiteral(5)) >>),
                  SimpleExpr(Call(Variable("g"), <<>>)) >>),
     \* chunk 9 (AndShort):
     \*   False and 1 // 0
     FileInput(<< SimpleExpr(BoolOp([kind |-> "Literal", jstype |-> "boolean", bvalue |-> FALSE], "and",
                    Binary(BigIntLiteral(1), "//", BigIntLiteral(0)))) >>),
     \* chunk 10 (OrShort):
     \*   1 or print(2)
     FileInput(<< SimpleExpr(BoolOp(BigIntLiteral(1), "or",
                    Call(Variable("print"), << BigIntLiteral(2) >>))) >>),
     \* chunk 11 (Abs):
     \*   abs(1)
     FileInput(<< SimpleExpr(Call(Variable("abs"), << BigIntLiteral(1) >>)) >>),
     \* chunk 12 (Print):
     \*   print(5)
     FileInput(<< SimpleExpr(Call(Variable("print"), << BigIntLiteral(5) >>)) >>),
     \* chunk 13 (Fib):
     \*   def fib(n):
     \*       if n <= 1:
     \*           return n
     \*       else:
     \*           return fib(n-1) + fib(n-2)
     \*   fib(2)
     FileInput(<< FunctionDef("fib", << "n" >>,
                    << If(Compare(Variable("n"), "<=", BigIntLiteral(1)),
                          << Return(Variable("n")) >>,
                          << Return(Binary(
                               Call(Variable("fib"), << Binary(Variable("n"), "-", BigIntLiteral(1)) >>),
                               "+",
                               Call(Variable("fib"), << Binary(Variable("n"), "-", BigIntLiteral(2)) >>))) >>) >>),
                  SimpleExpr(Call(Variable("fib"), << BigIntLiteral(2) >>)) >>),
     \* chunk 14 (Closure):
     \*   def outer():
     \*       w = 1
     \*       def inner():
     \*           return w
     \*       return inner()
     \*   outer()
     FileInput(<< FunctionDef("outer", <<>>,
                    << Assign("w", BigIntLiteral(1)),
                       FunctionDef("inner", <<>>, << Return(Variable("w")) >>),
                       Return(Call(Variable("inner"), <<>>)) >>),
                  SimpleExpr(Call(Variable("outer"), <<>>)) >>),
     \* chunk 15 (Lambda):
     \*   (lambda a: -a)(2) if not None else "s"
     FileInput(<< SimpleExpr(Ternary(Unary("not", [kind |-> "None"]),
                    Call(Grouping(Lambda(<< "a" >>, Unary("-", Variable("a")))), << BigIntLiteral(2) >>),
                    StrLiteral("s"))) >>),
     \* chunk 16 (TypeError):
     \*   "a" + 1
     FileInput(<< SimpleExpr(Binary(StrLiteral("a"), "+", BigIntLiteral(1))) >>)
  >>

\* the chunks sent when module bundles are fetched
ModuleChunks ==
  <<
     \* chunk 17 (ImportM):
     \*   from m import one
     \*   one(2)
     FileInput(<< FromImport("m", << "one" >>),
                  SimpleExpr(Call(Variable("one"), << BigIntLiteral(2) >>)) >>),
     \* chunk 18 (ImportMAgain):
     \*   from m import first
     FileInput(<< FromImport("m", << "first" >>) >>),
     \* chunk 19 (ImportN):
     \*   from n import nothing
     FileInput(<< FromImport("n", << "nothing" >>) >>),
     \* chunk 20 (Plain):
     \*   1 + 1
     FileInput(<< SimpleExpr(Binary(BigIntLiteral(1), "+", BigIntLiteral(1))) >>)
  >>

\* the operand expressions of the generated chunks, as the parser builds
\* them: whole numbers up to MaxOperand and their negations, True, False,
\* 0.0, 1.5, -1.5, 0j and 2j
OperandExprs ==
  [i \in 1..(MaxOperand + 1) |-> BigIntLiteral(i - 1)]
    \o [i \in 1..MaxOperand |-> Unary("-", BigIntLiteral(i))]
    \o << [kind |-> "Literal", jstype |-> "boolean", bvalue |-> TRUE],
          [kind |-> "Literal", jstype |-> "boolean", bvalue |-> FALSE],
          [kind |-> "Literal", jstype |-> "number", num |-> 0, den |-> 1],
          [kind |-> "Literal", jstype |-> "number", num |-> 3, den |-> 2],
          Unary("-", [kind |-> "Literal", jstype |-> "number", num |-> 3, den |-> 2]),
          Complex(VNumber(0, 1), VNumber(0, 1)),
          Complex(VNumber(0, 1), VNumber(2, 1)) >>

BinaryOperators ==
  << "+", "-", "*", "/", "//", "%", "**", "==", "!=", "<", "<=", ">", ">=" >>

\* the number of chunks written out above
FirstGenerated == Len(Chunks) + Len(ModuleChunks) + 1

\* the generated chunk c is   <left> <operator> <right>   followed by the
\* statement   "after"
BinaryChunk(c) ==
  LET k == c - FirstGenerated
      n == Len(OperandExprs)
      left == OperandExprs[(k % n) + 1]
      right == OperandExprs[((k \div n) % n) + 1]
      operator == BinaryOperators[(k \div (n * n)) + 1]
  IN FileInput(<< SimpleExpr(IF operator \in {"==", "!=", "<", "<=", ">", ">="}
                               THEN Compare(left, operator, right)
                               ELSE Binary(left, operator, right)),
                  SimpleExpr(StrLiteral("after")) >>)

\* chunks whose operands, callee, arguments and conditions print when they
\* are evaluated; each starts with
\*   def f(n):
\*       w = print(n)
\*       return n
OrderChunks ==
  LET f(n) == Call(Variable("f"), << BigIntLiteral(n) >>)
      chunkOf(stmts) ==
        FileInput(<< FunctionDef("f", << "n" >>,
                       << Assign("w", Call(Variable("print"), << Variable("n") >>)),
                          Return(Variable("n")) >>) >> \o stmts)
  IN << \*   f(1) + f(2)
        chunkOf(<< SimpleExpr(Binary(f(1), "+", f(2))) >>),
        \*   f(1) < f(2)
        chunkOf(<< SimpleExpr(Compare(f(1), "<", f(2))) >>),
        \*   f(1) and f(2)
        chunkOf(<< SimpleExpr(BoolOp(f(1), "and", f(2))) >>),
        \*   def g(a, b):
        \*       return a
        \*   def k(n):
        \*       w = print(n)
        \*       return g
        \*   k(0)(f(1), f(2))
        chunkOf(<< FunctionDef("g", << "a", "b" >>, << Return(Variable("a")) >>),
                   FunctionDef("k", << "n" >>,
                     << Assign("w", Call(Variable("print"), << Variable("n") >>)),
                        Return(Variable("g")) >>),
                   SimpleExpr(Call(Call(Variable("k"), << BigIntLiteral(0) >>),
                                   << f(1), f(2) >>)) >>),
        \*   if f(1):
        \*       f(2)
        \*   else:
        \*       f(3)
        chunkOf(<< If(f(1), << SimpleExpr(f(2)) >>, << SimpleExpr(f(3)) >>) >>),
        \*   if f(0):
        \*       f(2)
        \*   else:
        \*       f(3)
        chunkOf(<< If(f(0), << SimpleExpr(f(2)) >>, << SimpleExpr(f(3)) >>) >>),
        \*   f(2) if f(1) else f(3)
        chunkOf(<< SimpleExpr(Ternary(f(1), f(2), f(3))) >>),
        \*   f(2) if f(0) else f(3)
        chunkOf(<< SimpleExpr(Ternary(f(0), f(2), f(3))) >>) >>

\* the number of the first chunk of OrderChunks
FirstOrder ==
  FirstGenerated + Len(OperandExprs) * Len(OperandExprs) * Len(BinaryOperators)

\* a chunk that never ends:
\*   def r():
\*       return r()
\*   r()
RecurseForever ==
  FileInput(<< FunctionDef("r", <<>>, << Return(Call(Variable("r"), <<>>)) >>),
               SimpleExpr(Call(Variable("r"), <<>>)) >>)

\* chunks for the resolver.  The first eight are
\*   x = 1            (when inFile)
\*   def a():
\*       x = 1        (when inParent)
\*       def b():
\*           x = 1    (when inCurrent)
\*           nonlocal x
\*       b()
\*   a()
\* the next four have the nonlocal statement in a, whose enclosing frame is
\* that of the chunk
\*   x = 1            (when inFile)
\*   def a():
\*       x = 1        (when inCurrent)
\*       nonlocal x
\*   a()
\* the others assign one name in both branches of an if statement
ResolverChunks ==
  LET when(cond, stmts) == IF cond THEN stmts ELSE <<>>
      assignX == << Assign("x", BigIntLiteral(1)) >>
      nonlocalChunk(inFile, inParent, inCurrent) ==
        FileInput(
          when(inFile, assignX)
            \o << FunctionDef("a", <<>>,
                    when(inParent, assignX)
                      \o << FunctionDef("b", <<>>,
                              when(inCurrent, assignX) \o << NonLocal("x") >>),
                            SimpleExpr(Call(Variable("b"), <<>>)) >>),
                  SimpleExpr(Call(Variable("a"), <<>>)) >>)
      outerChunk(inFile, inCurrent) ==
        FileInput(
          when(inFile, assignX)
            \o << FunctionDef("a", <<>>, when(inCurrent, assignX) \o << NonLocal("x") >>),
                  SimpleExpr(Call(Variable("a"), <<>>)) >>)
      bool(b) == [kind |-> "Literal", jstype |-> "boolean", bvalue |-> b]
      \*   if <b>:
      \*       y = 1
      \*   else:
      \*       y = 2
      ifElse(b) == If(bool(b), << Assign("y", BigIntLiteral(1)) >>,
                               << Assign("y", BigIntLiteral(2)) >>)
  IN << nonlocalChunk(FALSE, FALSE, FALSE), nonlocalChunk(FALSE, FALSE, TRUE),
        nonlocalChunk(FALSE, TRUE, FALSE), nonlocalChunk(FALSE, TRUE, TRUE),
        nonlocalChunk(TRUE, FALSE, FALSE), nonlocalChunk(TRUE, FALSE, TRUE),
        nonlocalChunk(TRUE, TRUE, FALSE), nonlocalChunk(TRUE, TRUE, TRUE),
        outerChunk(FALSE, FALSE), outerChunk(FALSE, TRUE),
        outerChunk(TRUE, FALSE), outerChunk(TRUE, TRUE),
        \* the if statement as a statement of the chunk, then y
        FileInput(<< ifElse(TRUE), SimpleExpr(Variable("y")) >>),
        FileInput(<< ifElse(FALSE), SimpleExpr(Variable("y")) >>),
        \*   def c():
        \*       if <b>: ... else: ...
        \*       return y
        \*   c()
        FileInput(<< FunctionDef("c", <<>>, << ifElse(TRUE), Return(Variable("y")) >>),
                     SimpleExpr(Call(Variable("c"), <<>>)) >>),
        FileInput(<< FunctionDef("c", <<>>, << ifElse(FALSE), Return(Variable("y")) >>),
                     SimpleExpr(Call(Variable("c"), <<>>)) >>),
        \* the same name in one branch only
        FileInput(<< If(bool(TRUE), << Assign("y", BigIntLiteral(1)) >>,
                                    << Assign("z", BigIntLiteral(2)) >>),
                     SimpleExpr(Variable("y")) >>) >>

\* the number of the first chunk of ResolverChunks
FirstResolver == FirstOrder + Len(OrderChunks) + 1

\* chunks for the machine: assignment and scoping, return, operators on
\* operands they are not defined for, statements of the grammar, names of
\* the resolver's global environment, calls with too few or too many
\* arguments
MachineChunks ==
  LET int(n) == BigIntLiteral(n)
      var(n) == Variable(n)
      call(f, args) == SimpleExpr(Call(Variable(f), args))
      after == SimpleExpr(StrLiteral("after"))
      \*   def f(a, b):
      \*       return a
      defF == FunctionDef("f", << "a", "b" >>, << Return(var("a")) >>)
  IN <<
     \* 1:
     \*   x = 5
     \*   x
     FileInput(<< Assign("x", int(5)), SimpleExpr(var("x")) >>),
     \* 2:
     \*   x = 1
     \*   def g():
     \*       return x
     \*   def h():
     \*       x = 2
     \*       return g()
     \*   h()
     FileInput(<< Assign("x", int(1)),
                  FunctionDef("g", <<>>, << Return(var("x")) >>),
                  FunctionDef("h", <<>>, << Assign("x", int(2)),
                                            Return(Call(var("g"), <<>>)) >>),
                  call("h", <<>>) >>),
     \* 3:
     \*   def mk(a):
     \*       return lambda: a
     \*   t = mk(5)
     \*   def use(a):
     \*       return t()
     \*   use(7)
     FileInput(<< FunctionDef("mk", << "a" >>, << Return(Lambda(<<>>, var("a"))) >>),
                  Assign("t", Call(var("mk"), << int(5) >>)),
                  FunctionDef("use", << "a" >>, << Return(Call(var("t"), <<>>)) >>),
                  call("use", << int(7) >>) >>),
     \* 4:
     \*   def f(n):
     \*       if n < 1:
     \*           return
     \*       else:
     \*           return n
     \*       q = 3
     \*   f(0)
     \*   f(1)
     FileInput(<< FunctionDef("f", << "n" >>,
                    << If(Compare(var("n"), "<", int(1)),
                          << Return([kind |-> "null"]) >>,
                          << Return(var("n")) >>),
                       Assign("q", int(3)) >>),
                  call("f", << int(0) >>),
                  call("f", << int(1) >>) >>),
     \* 5:
     \*   def f(n):
     \*       return n
     \*   def g(n):
     \*       return f(n) + f(2)
     \*   g(1)
     FileInput(<< FunctionDef("f", << "n" >>, << Return(var("n")) >>),
                  FunctionDef("g", << "n" >>,
                    << Return(Binary(Call(var("f"), << var("n") >>), "+",
                                     Call(var("f"), << int(2) >>))) >>),
                  call("g", << int(1) >>) >>),
     \* 6:
     \*   x = 1 is 1
     \*   x
     FileInput(<< Assign("x", Compare(int(1), "is", int(1))), SimpleExpr(var("x")) >>),
     \* 7:
     \*   def f(a, b):
     \*       return a
     \*   f + 1
     \*   "after"
     FileInput(<< defF, SimpleExpr(Binary(var("f"), "+", int(1))), after >>),
     \* 8:
     \*   1 in 2
     \*   "after"
     FileInput(<< SimpleExpr(Compare(int(1), "in", int(2))), after >>),
     \* 9:
     \*   _int("a")
     \*   "after"
     FileInput(<< call("_int", << StrLiteral("a") >>), after >>),
     \* 10:
     \*   pass
     FileInput(<< [kind |-> "Pass"] >>),
     \* 11:
     \*   while False:
     \*       pass
     FileInput(<< [kind |-> "While",
                   condition |-> [kind |-> "Literal", jstype |-> "boolean", bvalue |-> FALSE],
                   body |-> << [kind |-> "Pass"] >>] >>),
     \* 12:
     \*   for i in 3:
     \*       pass
     FileInput(<< [kind |-> "For", target |-> "i", iter |-> int(3),
                   body |-> << [kind |-> "Pass"] >>] >>),
     \* 13:
     \*   break
     FileInput(<< [kind |-> "Break"] >>),
     \* 14:
     \*   continue
     FileInput(<< [kind |-> "Continue"] >>),
     \* 15:
     \*   assert True
     FileInput(<< [kind |-> "Assert",
                   value |-> [kind |-> "Literal", jstype |-> "boolean", bvalue |-> TRUE]] >>),
     \* 16:
     \*   global x
     FileInput(<< [kind |-> "Global", name |-> "x"] >>),
     \* 17:
     \*   def a():
     \*       x = 1
     \*       def b():
     \*           nonlocal x
     \*       b()
     \*   a()
     FileInput(<< FunctionDef("a", <<>>,
                    << Assign("x", int(1)),
                       FunctionDef("b", <<>>, << NonLocal("x") >>),
                       call("b", <<>>) >>),
                  call("a", <<>>) >>),
     \* 18:
     \*   print(lambda a::
     \*       return a
     \*   )
     FileInput(<< call("print", << [kind |-> "MultiLambda", parameters |-> << "a" >>,
                                    body |-> << Return(var("a")) >>] >>) >>),
     \* 19:
     \*   abs(1)
     FileInput(<< call("abs", << int(1) >>) >>),
     \* 20:
     \*   math_pi
     FileInput(<< SimpleExpr(var("math_pi")) >>),
     \* 21:
     \*   str(1)
     FileInput(<< call("str", << int(1) >>) >>),
     \* 22:
     \*   _int(1)
     FileInput(<< call("_int", << int(1) >>) >>),
     \* 23:
     \*   w = print(1)
     FileInput(<< Assign("w", Call(var("print"), << int(1) >>)) >>),
     \* 24 to 27: f called with one, two, three and no arguments
     FileInput(<< defF, call("f", << int(1) >>) >>),
     FileInput(<< defF, call("f", << int(1), int(2) >>) >>),
     FileInput(<< defF, call("f", << int(1), int(2), int(3) >>) >>),
     FileInput(<< defF, call("f", <<>>) >>)
  >>

\* the number of the first chunk of MachineChunks
FirstMachine == FirstResolver + Len(ResolverChunks)

\* chunks given as the tokenizer leaves them: the tokens scanEverything
\* returns for the source quoted above each one, or the error it throws
SourceChunks ==
  LET tok(type, lexeme) == [type |-> type, lexeme |-> lexeme]
      name(n) == tok("NAME", n)
      int(n) == tok("BIGINT", n)
      colon == tok("COLON", ":")
      equal == tok("EQUAL", "=")
      lpar == tok("LPAR", "(")
      rpar == tok("RPAR", ")")
      newline == tok("NEWLINE", "\n")
      indent == tok("INDENT", "")
      dedent == tok("DEDENT", "")
      scanned(toks) == [tokens |-> Append(toks, tok("ENDMARKER", "")), error |-> NoError]
      fromMImportOne == << tok("FROM", "from"), name("m"), tok("IMPORT", "import"),
                           name("one"), newline >>
  IN <<
     \* 1:   x : int = 5
     scanned(<< name("x"), colon, name("int"), equal, int(5), newline >>),
     \* 2:   y : str = "a"
     scanned(<< name("y"), colon, name("str"), equal, tok("STRING", "a"), newline >>),
     \* 3:   z : int = 1 + 2
     scanned(<< name("z"), colon, name("int"), equal, int(1), tok("PLUS", "+"), int(2),
                newline >>),
     \* 4:   b : bool = not True
     scanned(<< name("b"), colon, name("bool"), equal, tok("NOT", "not"),
                tok("TRUE", "True"), newline >>),
     \* 5:   n : (int) = -1
     scanned(<< name("n"), colon, lpar, name("int"), rpar, equal, tok("MINUS", "-"), int(1),
                newline >>),
     \* 6:   x = 5
     \*      x
     scanned(<< name("x"), equal, int(5), newline, name("x"), newline >>),
     \* 7:   x = 1 + 2 * 3
     \*      x
     scanned(<< name("x"), equal, int(1), tok("PLUS", "+"), int(2), tok("STAR", "*"), int(3),
                newline, name("x"), newline >>),
     \* 8:   print(2 - 1)
     scanned(<< name("print"), lpar, int(2), tok("MINUS", "-"), int(1), rpar, newline >>),
     \* 9:   x = (1
     scanned(<< name("x"), equal, lpar, int(1), newline >>),
     \* 10:  x = )
     scanned(<< name("x"), equal, rpar, newline >>),
     \* 11:  x = 1 ? 2
     [tokens |-> <<>>,
      error |-> [name |-> "UnknownTokenError", message |-> "^~ Unknown token '?'"]],
     \* 12:  y
     scanned(<< name("y"), newline >>),
     \* 13:  from m import one
     \*      y
     scanned(fromMImportOne \o << name("y"), newline >>),
     \* 14:  from m import one
     \*      one(2)
     scanned(fromMImportOne \o << name("one"), lpar, int(2), rpar, newline >>),
     \* 15:  if 1 < 2:
     \*          a = 1
     \*      else:
     \*          b = 2
     \*      a
     scanned(<< tok("IF", "if"), int(1), tok("LESS", "<"), int(2), colon, newline,
                indent, name("a"), equal, int(1), newline, dedent,
                tok("ELSE", "else"), colon, newline,
                indent, name("b"), equal, int(2), newline, dedent,
                name("a"), newline >>),
     \* 16:  def f(a):
     \*          return a
     \*      f(2)
     scanned(<< tok("DEF", "def"), name("f"), lpar, name("a"), rpar, colon, newline,
                indent, tok("RETURN", "return"), name("a"), newline, dedent,
                name("f"), lpar, int(2), rpar, newline >>),
     \* 17:  1 if True else 2
     scanned(<< int(1), tok("IF", "if"), tok("TRUE", "True"), tok("ELSE", "else"), int(2),
                newline >>),
     \* 18:  from m import one
     \*      x : int = one(2)
     scanned(fromMImportOne \o << name("x"), colon, name("int"), equal, name("one"), lpar,
                                  int(2), rpar, newline >>)
  >>

\* the number of the first chunk of SourceChunks
FirstSource == FirstMachine + Len(MachineChunks)

\* the program of chunk c
Program(c) ==
  IF c < FirstGenerated THEN (Chunks \o ModuleChunks)[c]
  ELSE IF c < FirstOrder THEN BinaryChunk(c)
  ELSE IF c < FirstOrder + Len(OrderChunks) THEN OrderChunks[c - FirstOrder + 1]
  ELSE IF c < FirstResolver THEN RecurseForever
  ELSE IF c < FirstMachine THEN ResolverChunks[c - FirstResolver + 1]
  ELSE IF c < FirstSource THEN MachineChunks[c - FirstMachine + 1]
  ELSE parse(SourceChunks[c - FirstSource + 1].tokens).node

\* the generated chunks of the model: a power has a whole exponent and no
\* complex operand
BinaryChunks ==
  LET isExact(e) == e.kind \in {"BigIntLiteral", "Unary"}
                      \/ (e.kind = "Literal" /\ e.jstype = "boolean")
                      \/ (e.kind = "Literal" /\ e.jstype = "number" /\ e.den = 1)
  IN { c \in FirstGenerated..(FirstOrder - 1) :
         LET e == Program(c).statements[1].expression
         IN e.operator = "**" =>
              /\ isExact(e.right)
              /\ e.right.kind = "Unary" => e.right.right.kind = "BigIntLiteral"
              /\ e.left.kind # "Complex" }

\* the exports of the module bundles served, in enumeration order
ModuleExports(moduleName) ==
  IF moduleName = "m" THEN << "one", "first" >> ELSE << "nothing" >>

\* findImportedModules on an array of statements: module names in order of
\* first occurrence
RECURSIVE findImportedModules(_)
findImportedModules(nodes) ==
  IF nodes = <<>> THEN <<>>
  ELSE LET node == Head(nodes)
           here == CASE node.kind = "FromImport" -> << node.module >>
                     [] node.kind = "FunctionDef" -> findImportedModules(node.body)
                     [] node.kind = "If" ->
                          findImportedModules(node.body) \o findImportedModules(node.elseBlock)
                     [] OTHER -> <<>>
           rest == findImportedModules(Tail(nodes))
       IN here \o SelectSeq(rest, LAMBDA n : \A i \in DOMAIN here : here[i] # n)

(***************************************************************************)
(* Resolver.  The chain of Environment objects is a stack (the visitor     *)
(* only ever enters and leaves nested scopes): envs[Len(envs)] is          *)
(* this.environment and envs[i-1] is the enclosing one.  names maps a name *)
(* to a token; sentinel holds the names mapped to RedefineableTokenSentinel*)
(***************************************************************************)
ResolverGlobalNames ==
  { "_int", "_int_from_string", "abs", "char_at", "error", "input",
    "isinstance", "max", "min", "print", "random_random", "round", "str",
    "time_time", "math_pi", "math_e", "math_inf", "math_nan", "math_tau",
    "math_acos", "math_acosh", "math_asin", "math_asinh", "math_atan",
    "math_atan2", "math_atanh", "math_cbrt", "math_ceil", "math_comb",
    "math_copysign", "math_cos", "math_cosh", "math_degrees", "math_erf",
    "math_erfc", "math_exp", "math_exp2", "math_expm1", "math_fabs",
    "math_factorial", "math_floor", "math_fma", "math_fmod", "math_gamma",
    "math_gcd", "math_isfinite", "math_isinf", "math_isnan", "math_isqrt",
    "math_lcm", "math_ldexp", "math_lgamma", "math_log", "math_log10",
    "math_log1p", "math_log2", "math_nextafter", "math_perm", "math_pow",
    "math_radians", "math_remainder", "math_sin", "math_sinh", "math_sqrt",
    "math_tan", "math_tanh", "math_trunc", "math_ulp" }

NewResolverEnv(names) == [names |-> names, sentinel |-> {}, definedNames |-> {}]

NameNotFoundError(n) ==
  [name |-> "NameNotFoundError", message |-> "NameNotFoundError: " \o n]

NameReassignmentError(n) ==
  [name |-> "NameReassignmentError", message |-> "NameReassignmentError: " \o n]

\* Environment.lookupName: distance of the name from the current
\* environment, -1 when no environment of the chain has it
RECURSIVE lookupNameFrom(_, _, _)
lookupNameFrom(envs, i, n) ==
  IF i = 0 THEN -1
  ELSE IF n \in envs[i].names THEN Len(envs) - i
  ELSE lookupNameFrom(envs, i - 1, n)

\* Environment.lookupNameParentEnvWithError on this.environment: the
\* enclosing environment is the one before the last
lookupNameParentEnvWithError(rs, n) ==
  IF Len(rs.envs) < 2 \/ n \notin rs.envs[Len(rs.envs) - 1].names
    THEN [rs EXCEPT !.err = NameNotFoundError(n)]
    ELSE rs

\* Environment.declareName on this.environment
declareName(rs, n) ==
  LET top == Len(rs.envs)
      env == rs.envs[top]
  IN IF n \in env.names /\ n \in env.definedNames
       THEN [rs EXCEPT !.err = NameReassignmentError(n)]
     ELSE IF n \in env.names /\ n \notin env.sentinel
       THEN [rs EXCEPT !.err = NameReassignmentError(n)]
     ELSE [rs EXCEPT !.envs[top] =
             [names |-> env.names \cup {n},
              sentinel |-> env.sentinel \ {n},
              definedNames |-> env.definedNames \cup {n}]]

\* Environment.declarePlaceholderName on this.environment
declarePlaceholderName(rs, n) ==
  LET top == Len(rs.envs)
      env == rs.envs[top]
  IN IF n \in env.names
       THEN [rs EXCEPT !.err = NameReassignmentError(n)]
       ELSE [rs EXCEPT !.envs[top] =
               [env EXCEPT !.names = @ \cup {n}, !.sentinel = @ \cup {n}]]

\* Resolver.functionVarConstraint: walk from the current environment to the
\* function scope (exclusive)
functionVarConstraint(rs, n) ==
  IF rs.functionScope = 0 THEN rs
  ELSE IF \E i \in (rs.functionScope + 1)..Len(rs.envs) : n \in rs.envs[i].names
    THEN [rs EXCEPT !.err = NameReassignmentError(n)]
    ELSE rs

RECURSIVE resolve(_, _), resolveArray(_, _), declarePlaceholders(_, _), acceptEach(_, _)

\* the loop of visitFromImportStmt
RECURSIVE declareNames(_, _)
declareNames(rs, names) ==
  IF names = <<>> \/ rs.err.name # "none" THEN rs
  ELSE declareNames(declareName(rs, Head(names)), Tail(names))

\* first loop of Resolver.resolve on an array
declarePlaceholders(rs, nodes) ==
  IF nodes = <<>> \/ rs.err.name # "none" THEN rs
  ELSE declarePlaceholders(
         IF Head(nodes).kind = "FunctionDef"
           THEN declarePlaceholderName(rs, Head(nodes).name)
           ELSE rs,
         Tail(nodes))

\* second loop of Resolver.resolve on an array
acceptEach(rs, nodes) ==
  IF nodes = <<>> \/ rs.err.name # "none" THEN rs
  ELSE acceptEach(resolve(rs, Head(nodes)), Tail(nodes))

resolveArray(rs, nodes) == acceptEach(declarePlaceholders(rs, nodes), nodes)

\* Resolver.resolve on one node: the visit* method of its kind.  A thrown
\* error stops the walk (err is set and every later visit is skipped).
resolve(rs, node) ==
  IF rs.err.name # "none" THEN rs
  ELSE CASE node.kind = "null" -> rs
    [] node.kind = "FileInput" ->
         LET r1 == resolveArray([rs EXCEPT !.envs = Append(@, NewResolverEnv({}))],
                                node.statements)
         IN IF r1.err.name # "none" THEN r1 ELSE [r1 EXCEPT !.envs = Front(@)]
    [] node.kind = "FunctionDef" ->
         LET r1 == declareName(rs, node.name)
             r2 == [r1 EXCEPT !.envs = Append(@, NewResolverEnv(
                                         {node.parameters[i] : i \in DOMAIN node.parameters})),
                              !.functionScope = Len(r1.envs) + 1]
             r3 == resolveArray(r2, node.body)
         IN IF r1.err.name # "none" THEN r1
            ELSE IF r3.err.name # "none" THEN r3
            ELSE [r3 EXCEPT !.envs = Front(@), !.functionScope = 0]
    [] node.kind = "Assign" ->
         LET r1 == resolve(rs, node.value)
             r2 == functionVarConstraint(r1, node.name)
         IN IF r1.err.name # "none" THEN r1
            ELSE IF r2.err.name # "none" THEN r2
            ELSE declareName(r2, node.name)
    [] node.kind = "If" ->
         resolveArray(resolveArray(resolve(rs, node.condition), node.body), node.elseBlock)
    [] node.kind = "AnnAssign" ->
         LET r1 == resolve(resolve(rs, node.ann), node.value)
             r2 == functionVarConstraint(r1, node.name)
         IN IF r1.err.name # "none" THEN r1
            ELSE IF r2.err.name # "none" THEN r2
            ELSE declareName(r2, node.name)
    [] node.kind = "Indent" -> [rs EXCEPT !.envs = Append(@, NewResolverEnv({}))]
    [] node.kind = "Dedent" -> IF Len(rs.envs) > 1 THEN [rs EXCEPT !.envs = Front(@)] ELSE rs
    [] node.kind = "NonLocal" -> lookupNameParentEnvWithError(rs, node.name)
    [] node.kind = "Assert" -> resolve(rs, node.value)
    [] node.kind = "For" ->
         resolveArray(resolve(declareName(rs, node.target), node.iter), node.body)
    [] node.kind = "While" -> resolveArray(resolve(rs, node.condition), node.body)
    [] node.kind = "Return" -> resolve(rs, node.value)
    [] node.kind = "FromImport" -> declareNames(rs, node.names)
    [] node.kind = "SimpleExpr" -> resolve(rs, node.expression)
    [] node.kind = "Variable" ->
         \* Environment.lookupNameCurrentEnvWithError
         IF lookupNameFrom(rs.envs, Len(rs.envs), node.name) < 0
           THEN [rs EXCEPT !.err = NameNotFoundError(node.name)]
           ELSE rs
    [] node.kind = "Lambda" ->
         LET r1 == resolve([rs EXCEPT !.envs = Append(@, NewResolverEnv(
                                         {node.parameters[i] : i \in DOMAIN node.parameters}))],
                           node.body)
         IN IF r1.err.name # "none" THEN r1 ELSE [r1 EXCEPT !.envs = Front(@)]
    [] node.kind = "MultiLambda" ->
         LET r1 == resolveArray([rs EXCEPT !.envs = Append(@, NewResolverEnv(
                                              {node.parameters[i] : i \in DOMAIN node.parameters}))],
                                node.body)
         IN IF r1.err.name # "none" THEN r1 ELSE [r1 EXCEPT !.envs = Front(@)]
    [] node.kind = "Unary" -> resolve(rs, node.right)
    [] node.kind = "Grouping" -> resolve(rs, node.expression)
    [] node.kind \in {"Binary", "BoolOp", "Compare"} ->
         resolve(resolve(rs, node.left), node.right)
    [] node.kind = "Call" -> resolveArray(resolve(rs, node.callee), node.args)
    [] node.kind = "Ternary" ->
         resolve(resolve(resolve(rs, node.predicate), node.consequent), node.alternative)
    \* Global, Pass, Break, Continue and the literals: nothing is done
    [] OTHER -> rs

\* resolve(ast) by a resolver whose global environment holds the given
\* names: the error thrown, NoError when the program is accepted
ResolveIn(globalNames, ast) ==
  resolve([envs |-> << NewResolverEnv(globalNames) >>,
           functionScope |-> 0,
           err |-> NoError], ast).err

\* new Resolver(code, ast).resolve(ast)
Resolver(ast) == ResolveIn(ResolverGlobalNames, ast)

\* runPyAST with doValidate false: the error thrown by the tokenizer or the
\* parser, NoError when the chunk has an AST
runPyASTUnvalidated(c) ==
  IF c < FirstSource THEN NoError
  ELSE IF SourceChunks[c - FirstSource + 1].error.name # "none"
    THEN SourceChunks[c - FirstSource + 1].error
  ELSE parse(SourceChunks[c - FirstSource + 1].tokens).error

\* runPyAST(code, 1, true): the error thrown by the tokenizer, the parser or
\* the resolver, NoError when the AST is returned.  A chunk written as an
\* AST has been tokenized and parsed
runPyAST(c) ==
  IF c < FirstSource THEN Resolver(Program(c))
  ELSE IF SourceChunks[c - FirstSource + 1].error.name # "none"
    THEN SourceChunks[c - FirstSource + 1].error
  ELSE IF parse(SourceChunks[c - FirstSource + 1].tokens).error.name # "none"
    THEN parse(SourceChunks[c - FirstSource + 1].tokens).error
  ELSE Resolver(Program(c))

(***************************************************************************)
(* Values: truthiness, printing, arithmetic                                *)
(***************************************************************************)
\* a JS NaN is kept as the number 0/0
NaN == [type |-> "number", num |-> 0, den |-> 0]

IsNaN(v) == v.den = 0

isFalsy(value) ==
  CASE value.type = "bigint" -> value.value = 0
    [] value.type = "number" -> value.num = 0 /\ value.den # 0
    [] value.type = "bool" -> ~value.bvalue
    [] value.type = "string" -> value.svalue = ""
    [] value.type = "undefined" -> TRUE
    [] OTHER -> FALSE

\* digits of the fractional part rem/den, at most k of them
RECURSIVE FracDigits(_, _, _)
FracDigits(rem, den, k) ==
  IF rem = 0 \/ k = 0 THEN ""
  ELSE ToString((rem * 10) \div den) \o FracDigits((rem * 10) % den, den, k - 1)

toPythonFloat(v) ==
  IF IsNaN(v) THEN "nan"
  ELSE IF v.num = 0 THEN "0.0"
  \* |num| >= 1e16 is beyond the integers of the model; |num| < 1e-4
  ELSE IF Abs(v.num) * 10000 < v.den THEN "<exponential>"
  ELSE IF v.den = 1 THEN ToString(v.num) \o ".0"
  ELSE (IF v.num < 0 THEN "-" ELSE "") \o ToString(Abs(v.num) \div v.den) \o "."
         \o FracDigits(Abs(v.num) % v.den, v.den, 16)

toPythonString(obj) ==
  CASE obj.type = "js_undefined" -> "None"
    [] obj.type = "bigint" -> ToString(obj.value)
    [] obj.type = "number" -> toPythonFloat(obj)
    [] obj.type = "bool" -> IF obj.bvalue THEN "True" ELSE "False"
    [] obj.type = "error" -> obj.message
    [] obj.type = "PyClosure" ->
         "<function " \o (IF obj.node.kind = "FunctionDef" THEN obj.node.name ELSE "(anonymous)") \o ">"
    [] obj.type = "string" -> obj.svalue
    [] obj.type = "complex" ->
         \* PyComplexNumber.toString; num.toString() writes a whole number
         \* without ".0"
         LET toPythonComplexFloat(v) == IF v.den = 1 THEN ToString(v.num) ELSE toPythonFloat(v)
         IN IF obj.real.num = 0 THEN toPythonComplexFloat(obj.imag) \o "j"
            ELSE "(" \o toPythonComplexFloat(obj.real) \o (IF obj.imag.num >= 0 THEN "+" ELSE "")
                   \o toPythonComplexFloat(obj.imag) \o "j)"
    [] OTHER -> "None"

typeTranslator(type) ==
  CASE type = "bigint" -> "int"
    [] type = "number" -> "float"
    [] type = "boolean" -> "bool"
    [] type = "bool" -> "bool"
    [] type = "string" -> "str"
    [] type = "complex" -> "complex"
    [] type = "undefined" -> "NoneType"
    [] OTHER -> "unknown"

\* BuiltInFunctions.print, one argument list: the text appended to context.output
RECURSIVE JoinArgs(_)
JoinArgs(args) ==
  IF args = <<>> THEN ""
  ELSE IF Len(args) = 1 THEN toPythonString(args[1])
  ELSE toPythonString(args[1]) \o " " \o JoinArgs(Tail(args))

(***************************************************************************)
(* Runtime errors (message reduced to the hint line)                       *)
(***************************************************************************)
UnsupportedOperandTypeError(t1, t2, op) ==
  [name |-> "UnsupportedOperandTypeError",
   message |-> IF t2 = ""
     THEN "TypeError: bad operand type for unary " \o op \o ": '" \o typeTranslator(t1) \o "'"
     ELSE "TypeError: unsupported operand type(s) for " \o op \o ": '"
            \o typeTranslator(t1) \o "' and '" \o typeTranslator(t2) \o "'"]

ZeroDivisionError(op) ==
  [name |-> "ZeroDivisionError",
   message |-> CASE op = "/" -> "ZeroDivisionError: division by zero."
                 [] op = "//" -> "ZeroDivisionError: integer division or modulo by zero."
                 [] op = "%" -> "ZeroDivisionError: integer modulo by zero."
                 [] op = "**" -> "ZeroDivisionError: 0.0 cannot be raised to a negative power."
                 [] OTHER -> "ZeroDivisionError: division by zero."]

UnboundLocalError(n) ==
  [name |-> "UnboundLocalError",
   message |-> "UnboundLocalError: cannot access local variable '" \o n
                 \o "' where it is not associated with a value"]

NameError(n) ==
  [name |-> "NameError", message |-> "NameError: name '" \o n \o "' is not defined"]

\* result of an evaluate* helper: a value, or an error that went through
\* pyHandleRuntimeError
Ok(v) == [raised |-> NoError, value |-> v, handled |-> FALSE]

Handled(e) == [raised |-> e, value |-> JsUndefined, handled |-> TRUE]

JsError(msg) == [name |-> "Error", message |-> msg]

(***************************************************************************)
(* Operators                                                               *)
(***************************************************************************)
\* pythonMod on two bigints
\* pythonMod without the correction of the sign: the remainder of JavaScript
pythonModTruncated(a, b) == IF a < 0 THEN -(Abs(a) % Abs(b)) ELSE a % Abs(b)

pythonMod(a, b) ==
  LET mod == (IF a < 0 THEN -(Abs(a) % Abs(b)) ELSE a % Abs(b))
  IN IF (mod < 0 /\ b > 0) \/ (mod > 0 /\ b < 0) THEN mod + b ELSE mod

\* floor of the fraction n/d, d # 0
FloorFrac(n, d) == IF d < 0 THEN (-n) \div (-d) ELSE n \div d

\* Number(x) of an operand after the bool coercion
ToNumber(v) ==
  CASE v.type = "bool" -> VNumber(IF v.bvalue THEN 1 ELSE 0, 1)
    [] v.type = "bigint" -> VNumber(v.value, 1)
    [] v.type = "number" -> v
    [] OTHER -> NaN

\* sign of l - r for two numbers that are not NaN
NumCmp(l, r) ==
  LET d == l.num * r.den - r.num * l.den
  IN IF d < 0 THEN -1 ELSE IF d > 0 THEN 1 ELSE 0

RECURSIVE pyCompare(_, _)
pyCompare(val1, val2) ==
  CASE val1.type = "bigint" /\ val2.type = "bigint" ->
         IF val1.value < val2.value THEN -1 ELSE IF val1.value > val2.value THEN 1 ELSE 0
    [] val1.type = "number" /\ val2.type = "number" ->
         IF IsNaN(val1) \/ IsNaN(val2) THEN 0 ELSE NumCmp(val1, val2)
    [] val1.type = "bigint" /\ val2.type = "number" ->
         IF IsNaN(val2) THEN 1 ELSE NumCmp(VNumber(val1.value, 1), val2)
    [] val1.type = "number" /\ val2.type = "bigint" -> -pyCompare(val2, val1)
    [] OTHER -> 0

evaluateUnaryExpression(operator, value) ==
  CASE operator = "not" -> Ok(VBool(isFalsy(value)))
    [] operator = "-" ->
         CASE value.type = "number" -> Ok([value EXCEPT !.num = -@])
           [] value.type = "bigint" -> Ok(VBigInt(-value.value))
           [] value.type = "bool" -> Ok(VBigInt(IF value.bvalue THEN -1 ELSE 0))
           [] value.type = "complex" ->
                Ok([value EXCEPT !.real = VNumber(-@.num, @.den), !.imag = VNumber(-@.num, @.den)])
           [] OTHER -> Handled(UnsupportedOperandTypeError(value.type, "", "-"))
    [] operator = "+" ->
         CASE value.type \in {"number", "bigint", "complex"} -> Ok(value)
           [] value.type = "bool" -> Ok(VBigInt(IF value.bvalue THEN 1 ELSE 0))
           [] OTHER -> Handled(UnsupportedOperandTypeError(value.type, "", "+"))
    [] OTHER -> Ok(VError("Unreachable in evaluateUnaryExpression"))

evaluateBoolExpression(operator, left, right) ==
  CASE operator = "or" -> Ok(IF ~isFalsy(left) THEN left ELSE right)
    [] operator = "and" -> Ok(IF isFalsy(left) THEN left ELSE right)
    [] OTHER -> Handled(UnsupportedOperandTypeError(typeTranslator(left.type),
                                                    typeTranslator(right.type), operator))

\* the strings the chunks can build (the literals "a" and "s" and one
\* concatenation of them), in the order JS < gives them
StringOrder == << "", "a", "aa", "as", "s", "sa", "ss" >>

\* sign of the JS comparison of two strings
StrCmp(a, b) ==
  LET ia == CHOOSE i \in DOMAIN StringOrder : StringOrder[i] = a
      ib == CHOOSE i \in DOMAIN StringOrder : StringOrder[i] = b
  IN ia - ib

\* b ** e for a whole e >= 0
RECURSIVE Pow(_, _)
Pow(b, e) == IF e <= 0 THEN 1 ELSE b * Pow(b, e - 1)

\* the float branch: l and r are Number(leftNum) and Number(rightNum)
FloatArith(operator, l, r) ==
  IF operator \in {"/", "//", "%"} /\ ~IsNaN(r) /\ r.num = 0
    THEN Handled(ZeroDivisionError(operator))
  ELSE IF operator = "**" /\ ~IsNaN(l) /\ ~IsNaN(r) /\ l.num = 0 /\ r.num < 0
    THEN Handled(ZeroDivisionError(operator))
  ELSE IF IsNaN(l) \/ IsNaN(r) THEN Ok(NaN)
  ELSE CASE operator = "+" -> Ok(VNumber(l.num * r.den + r.num * l.den, l.den * r.den))
         [] operator = "-" -> Ok(VNumber(l.num * r.den - r.num * l.den, l.den * r.den))
         [] operator = "*" -> Ok(VNumber(l.num * r.num, l.den * r.den))
         [] operator = "/" -> Ok(VNumber(l.num * r.den, l.den * r.num))
         [] operator = "//" -> Ok(VNumber(FloorFrac(l.num * r.den, l.den * r.num), 1))
         [] operator = "%" ->
              \* pythonMod(l, r): the result has the sign of r
              Ok(VNumber(l.num * r.den
                           - FloorFrac(l.num * r.den, l.den * r.num) * r.num * l.den,
                         l.den * r.den))
         \* l ** r, for the exponents that are whole numbers
         [] operator = "**" /\ r.den = 1 /\ r.num >= 0 ->
              Ok(VNumber(Pow(l.num, r.num), Pow(l.den, r.num)))
         [] operator = "**" /\ r.den = 1 /\ r.num < 0 ->
              Ok(VNumber(Pow(l.den, -r.num), Pow(l.num, -r.num)))

\* the bigint branch
BigIntArith(operator, l, r) ==
  IF operator \in {"/", "//", "%"} /\ r = 0
    THEN Handled(ZeroDivisionError(operator))
  ELSE IF operator = "**" /\ l = 0 /\ r < 0
    THEN Handled(ZeroDivisionError(operator))
  ELSE CASE operator = "+" -> Ok(VBigInt(l + r))
         [] operator = "-" -> Ok(VBigInt(l - r))
         [] operator = "*" -> Ok(VBigInt(l * r))
         [] operator = "/" -> Ok(VNumber(l, r))
         [] operator = "//" ->
              \* (l - pythonMod(l, r)) / r, the bigint division that truncates
              LET n == l - pythonMod(l, r)
                  q == Abs(n) \div Abs(r)
              IN Ok(VBigInt(IF (n < 0) # (r < 0) THEN -q ELSE q))
         [] operator = "%" -> Ok(VBigInt(pythonMod(l, r)))
         [] operator = "**" ->
              IF r < 0 THEN Ok(VNumber(1, Pow(l, -r))) ELSE Ok(VBigInt(Pow(l, r)))

\* PyComplexNumber.fromValue(v.value): the real and the imaginary part
fromValue(v) ==
  CASE v.type = "complex" -> [real |-> v.real, imag |-> v.imag]
    [] OTHER -> [real |-> ToNumber(v), imag |-> VNumber(0, 1)]

\* the complex branch, on PyComplexNumber.fromValue of the operands; the
\* parts are numbers and none is NaN, so that +, -, * and / of two parts
\* are the JS operators on two fractions
ComplexArith(operator, l, r) ==
  LET plus(x, y) == VNumber(x.num * y.den + y.num * x.den, x.den * y.den)
      minus(x, y) == VNumber(x.num * y.den - y.num * x.den, x.den * y.den)
      times(x, y) == VNumber(x.num * y.num, x.den * y.den)
      over(x, y) == VNumber(x.num * y.den, x.den * y.num)
      \* a, b are the parts of this, c, d of other
      a == l.real
      b == l.imag
      c == r.real
      d == r.imag
  IN CASE operator = "+" -> Ok([type |-> "complex", real |-> plus(a, c), imag |-> plus(b, d)])
       [] operator = "-" -> Ok([type |-> "complex", real |-> minus(a, c), imag |-> minus(b, d)])
       [] operator = "*" ->
            LET ac == times(a, c)
                bd == times(b, d)
                ad == times(a, d)
                bc == times(b, c)
            IN Ok([type |-> "complex", real |-> minus(ac, bd), imag |-> plus(ad, bc)])
       [] operator = "/" ->
            \* denominator = c * c + d * d
            IF c.num = 0 /\ d.num = 0
              THEN \* thrown without pyHandleRuntimeError
                   [raised |-> JsError("Division by zero in complex number."),
                    value |-> JsUndefined, handled |-> FALSE]
            ELSE IF Abs(d.num) * c.den < Abs(c.num) * d.den
              THEN \* absD < absC
                   LET ratio == over(d, c)
                       dr == times(d, ratio)
                       br == times(b, ratio)
                       ar == times(a, ratio)
                       denom == plus(c, dr)
                       realNum == plus(a, br)
                       imagNum == minus(b, ar)
                   IN Ok([type |-> "complex", real |-> over(realNum, denom),
                          imag |-> over(imagNum, denom)])
              ELSE LET ratio == over(c, d)
                       cr == times(c, ratio)
                       ar == times(a, ratio)
                       br == times(b, ratio)
                       denom == plus(d, cr)
                       realNum == plus(ar, b)
                       imagNum == minus(br, a)
                   IN Ok([type |-> "complex", real |-> over(realNum, denom),
                          imag |-> over(imagNum, denom)])
       \* PyComplexNumber.pow is outside the model: no program of the model
       \* raises a complex number to a power
       [] operator = "==" -> Ok(VBool(a = c /\ b = d))
       [] operator = "!=" -> Ok(VBool(~(a = c /\ b = d)))

evaluateBinaryExpression(operator, left, right) ==
  IF left.type = "complex" \/ right.type = "complex" THEN
    IF right.type \notin {"complex", "number", "bigint", "bool"}
         \/ operator \notin {"+", "-", "*", "/", "**", "==", "!="}
      THEN Handled(UnsupportedOperandTypeError(left.type, right.type, operator))
      ELSE ComplexArith(operator, fromValue(left), fromValue(right))
  ELSE IF left.type = "undefined" \/ right.type = "undefined" THEN
    CASE operator = "==" -> Ok(VBool(left.type = right.type))
      [] operator = "!=" -> Ok(VBool(left.type # right.type))
      [] OTHER -> Handled(UnsupportedOperandTypeError(left.type, right.type, operator))
  ELSE IF left.type = "string" \/ right.type = "string" THEN
    IF left.type = "string" /\ right.type = "string" THEN
      CASE operator = "+" -> Ok(VString(left.svalue \o right.svalue))
        [] operator = "==" -> Ok(VBool(left.svalue = right.svalue))
        [] operator = "!=" -> Ok(VBool(left.svalue # right.svalue))
        [] operator = "<" -> Ok(VBool(StrCmp(left.svalue, right.svalue) < 0))
        [] operator = "<=" -> Ok(VBool(StrCmp(left.svalue, right.svalue) <= 0))
        [] operator = ">" -> Ok(VBool(StrCmp(left.svalue, right.svalue) > 0))
        [] operator = ">=" -> Ok(VBool(StrCmp(left.svalue, right.svalue) >= 0))
        [] OTHER -> Handled(UnsupportedOperandTypeError(left.type, right.type, operator))
    ELSE Handled(UnsupportedOperandTypeError(left.type, right.type, operator))
  ELSE
    LET leftType == IF left.type = "bool" THEN "number" ELSE left.type
        rightType == IF right.type = "bool" THEN "number" ELSE right.type
    IN CASE operator \in {"+", "-", "*", "/", "//", "%", "**"} ->
              IF leftType = "number" \/ rightType = "number"
                THEN FloatArith(operator, ToNumber(left), ToNumber(right))
              ELSE IF leftType = "bigint" /\ rightType = "bigint"
                THEN BigIntArith(operator, left.value, right.value)
              ELSE Ok(VError("todo error"))
         [] operator \in {"==", "!=", "<", "<=", ">", ">="} ->
              LET cmp == pyCompare(left, right)
              IN Ok(VBool(CASE operator = "==" -> cmp = 0
                            [] operator = "!=" -> cmp # 0
                            [] operator = "<" -> cmp < 0
                            [] operator = "<=" -> cmp <= 0
                            [] operator = ">" -> cmp > 0
                            [] operator = ">=" -> cmp >= 0))
         [] OTHER -> Ok(VError("todo error"))

(***************************************************************************)
(* Machine state.  m is the part of the PyContext a handler works on:      *)
(*   control, stash      Stack objects, top = last element                 *)
(*   environments        runtime.environments, current frame first         *)
(*   frames              every environment object created so far; a frame  *)
(*                       is referred to by its index in frames, 0 is null  *)
(*   output, errors      context.output, context.errors                    *)
(*   objectCount         runtime.objectCount                               *)
(*   raised              the exception thrown by the handler, if any       *)
(***************************************************************************)
GlobalFrame == 1

\* PyContext.createGlobalEnvironment
createGlobalEnvironment ==
  [name |-> "global", tail |-> 0, head |-> [n \in {} |-> VUndefined], id |-> -1,
   closure |-> [type |-> "none"]]

Bind(head, n, v) == [x \in (DOMAIN head) \cup {n} |-> IF x = n THEN v ELSE head[x]]

Throw(m, e) == [m EXCEPT !.raised = e]

\* pyHandleRuntimeError without its throw statement
pyHandleRuntimeErrorNoThrow(m, e) == [m EXCEPT !.errors = Append(@, e)]

pyHandleRuntimeError(m, e) == [m EXCEPT !.errors = Append(@, e), !.raised = e]

currentEnvironment(m) == m.environments[1]

\* pushEnvironment with push in place of unshift
pushEnvironmentAtEnd(m, environment) ==
  [m EXCEPT !.frames = Append(@, environment),
            !.environments = @ \o << Len(m.frames) + 1 >>]

\* pushEnvironment of a frame that is new: it is added to frames as well
pushEnvironment(m, environment) ==
  [m EXCEPT !.frames = Append(@, environment),
            !.environments = << Len(m.frames) + 1 >> \o @]

\* createEnvironment with the caller's frame as tail
createEnvironmentInCaller(m, closure, args) ==
  [name |-> IF closure.node.kind = "FunctionDef" THEN closure.node.name ELSE "lambda",
   tail |-> currentEnvironment(m),
   head |-> [n \in {closure.node.parameters[i] : i \in DOMAIN closure.node.parameters} |->
               LET i == CHOOSE j \in DOMAIN closure.node.parameters :
                          /\ closure.node.parameters[j] = n
                          /\ \A k \in DOMAIN closure.node.parameters :
                               closure.node.parameters[k] = n => k <= j
               IN IF i <= Len(args) THEN args[i] ELSE JsUndefined],
   id |-> m.objectCount,
   closure |-> closure]

\* createEnvironment; the id comes from uniqueId (objectCount++)
createEnvironment(m, closure, args) ==
  [name |-> IF closure.node.kind = "FunctionDef" THEN closure.node.name ELSE "lambda",
   tail |-> closure.environment,
   head |-> [n \in {closure.node.parameters[i] : i \in DOMAIN closure.node.parameters} |->
               LET i == CHOOSE j \in DOMAIN closure.node.parameters :
                          /\ closure.node.parameters[j] = n
                          /\ \A k \in DOMAIN closure.node.parameters :
                               closure.node.parameters[k] = n => k <= j
               IN IF i <= Len(args) THEN args[i] ELSE JsUndefined],
   id |-> m.objectCount,
   closure |-> closure]

\* pyDefineVariable with the global environment as env
pyDefineVariableGlobal(m, name, value) ==
  [m EXCEPT !.frames[Last(m.environments)].head = Bind(@, name, value)]

pyDefineVariable(m, name, value) ==
  [m EXCEPT !.frames[currentEnvironment(m)].head = Bind(@, name, value)]

\* the while loop of pyGetVariable: the frame of the chain that has the
\* name, 0 when none has
RECURSIVE LookupFrame(_, _, _)
LookupFrame(frames, env, name) ==
  IF env = 0 THEN 0
  ELSE IF name \in DOMAIN frames[env].head THEN env
  ELSE LookupFrame(frames, frames[env].tail, name)

\* pyGetVariable: the value, or the error it throws (not through
\* pyHandleRuntimeError)
pyGetVariable(m, name) ==
  LET env == m.frames[currentEnvironment(m)]
      found == LookupFrame(m.frames, currentEnvironment(m), name)
  IN IF env.closure.type = "PyClosure" /\ name \in env.closure.localVariables
          /\ name \notin DOMAIN env.head
       THEN [raised |-> UnboundLocalError(name), value |-> JsUndefined]
     ELSE IF found # 0
       THEN [raised |-> NoError, value |-> m.frames[found].head[name]]
     ELSE IF name \in {"print", "_int"}
       THEN [raised |-> NoError, value |-> [type |-> "function", name |-> name]]
     ELSE [raised |-> NameError(name), value |-> JsUndefined]

\* scanForAssignments: the visitor descends through array-valued properties
\* only; it stops at FunctionDef and Lambda
RECURSIVE scanForAssignments(_)
scanForAssignments(nodes) ==
  IF nodes = <<>> THEN {}
  ELSE LET n == Head(nodes)
       IN (CASE n.kind = "Assign" -> {n.name}
             [] n.kind = "If" -> scanForAssignments(n.body) \cup scanForAssignments(n.elseBlock)
             [] OTHER -> {})
          \cup scanForAssignments(Tail(nodes))

\* new PyClosure(node, environment, context, false, localVariables)
PyClosure(m, node, localVariables) ==
  [type |-> "PyClosure", id |-> m.objectCount, node |-> node,
   environment |-> currentEnvironment(m), localVariables |-> localVariables]

(***************************************************************************)
(* Instructions                                                            *)
(***************************************************************************)
binOpInstr(symbol, srcNode) == [instrType |-> "BinaryOperation", symbol |-> symbol, srcNode |-> srcNode]

StatementSequence(body) == [type |-> "StatementSequence", body |-> body]

IsInstr(command) == "instrType" \in DOMAIN command

IsReset(command) == IsInstr(command) /\ command.instrType = "Reset"

(***************************************************************************)
(* Stack helpers on m                                                      *)
(***************************************************************************)
ControlPush(m, items) == [m EXCEPT !.control = @ \o items]

StashPush(m, v) == [m EXCEPT !.stash = Append(@, v)]

\* Stack.peek / the value Stack.pop returns
StashPeek(m) == IF m.stash = <<>> THEN JsUndefined ELSE Last(m.stash)

\* Stack.pop: the stack afterwards
StashDrop(m) == IF m.stash = <<>> THEN m ELSE [m EXCEPT !.stash = Front(@)]

(***************************************************************************)
(* pyCmdEvaluators: AST node handlers.  m is the state after control.pop() *)
(***************************************************************************)
\* Return that does not push the Reset back
UnwindPastReset(control) ==
  IF \E i \in DOMAIN control : IsReset(control[i])
    THEN SubSeq(control, 1, (CHOOSE i \in DOMAIN control :
                               /\ IsReset(control[i])
                               /\ \A j \in DOMAIN control : IsReset(control[j]) => j <= i) - 1)
    ELSE <<>>

\* the control after Return has popped down to the innermost Reset and
\* pushed it back; empty when there is no Reset
UnwindToReset(control) ==
  IF \E i \in DOMAIN control : IsReset(control[i])
    THEN SubSeq(control, 1, CHOOSE i \in DOMAIN control :
                              /\ IsReset(control[i])
                              /\ \A j \in DOMAIN control : IsReset(control[j]) => j <= i)
    ELSE <<>>

\* Return without its while loop: nothing is popped from the control
EvalReturnNoUnwind(m, command) ==
  IF command.value.kind # "null"
    THEN ControlPush(m, << command.value >>)
    ELSE StashPush(m, VUndefined)

EvalReturn(m, command) ==
  LET m1 == [m EXCEPT !.control = UnwindToReset(@)]
  IN IF command.value.kind # "null"
       THEN ControlPush(m1, << command.value >>)
       ELSE StashPush(m1, VUndefined)

(***************************************************************************)
(* pyCmdEvaluators: instruction handlers                                   *)
(***************************************************************************)
InstrUnaryOp(m, command) ==
  LET argument == StashPeek(m)
      m1 == StashDrop(m)
      r == evaluateUnaryExpression(command.symbol, argument)
  IN IF argument.type = "js_undefined" THEN m1
     ELSE IF r.raised.name # "none" THEN pyHandleRuntimeError(m1, r.raised)
     ELSE StashPush(m1, r.value)

InstrBinaryOp(m, command) ==
  LET right == StashPeek(m)
      m1 == StashDrop(m)
      left == StashPeek(m1)
      m2 == StashDrop(m1)
      r == evaluateBinaryExpression(command.symbol, left, right)
  IN IF left.type = "js_undefined" \/ right.type = "js_undefined" THEN m2
     ELSE IF r.raised.name # "none" /\ r.handled THEN pyHandleRuntimeError(m2, r.raised)
     ELSE IF r.raised.name # "none" THEN Throw(m2, r.raised)
     ELSE StashPush(m2, r.value)

InstrBoolOp(m, command) ==
  LET right == StashPeek(m)
      m1 == StashDrop(m)
      left == StashPeek(m1)
      m2 == StashDrop(m1)
      r == evaluateBoolExpression(command.symbol, left, right)
  IN IF left.type = "js_undefined" \/ right.type = "js_undefined" THEN m2
     ELSE IF r.raised.name # "none" THEN pyHandleRuntimeError(m2, r.raised)
     ELSE StashPush(m2, r.value)

InstrAssignment(m, command) ==
  LET value == StashPeek(m)
      m1 == StashDrop(m)
  IN IF value.type = "js_undefined" THEN m1
     ELSE pyDefineVariable(m1, command.symbol, value)

(***************************************************************************)
(* The host bridge: marshal.ts and JsClosure                               *)
(***************************************************************************)

marshalToPy(value) ==
  CASE value.js = "bigint" -> Ok(VBigInt(value.value))
    [] value.js = "number" -> Ok([type |-> "number", num |-> value.num, den |-> value.den])
    [] value.js = "string" -> Ok(VString(value.svalue))
    [] value.js = "boolean" -> Ok(VBool(value.bvalue))
    [] value.js \in {"null", "undefined"} -> Ok(VUndefined)
    [] OTHER -> [raised |-> JsError("Marshalling of Javascript type '" \o (IF value.js = "null" THEN "object" ELSE value.js)
                                      \o " is not implemented."),
                 value |-> JsUndefined]

unmarshalFromPy(value) ==
  CASE value.type = "js_undefined" -> Ok([js |-> "undefined"])
    [] value.type = "function" -> Ok([js |-> "function", name |-> value.name])
    [] value.type = "bigint" -> Ok([js |-> "bigint", value |-> value.value])
    [] value.type = "number" -> Ok([js |-> "number", num |-> value.num, den |-> value.den])
    [] value.type = "string" -> Ok([js |-> "string", svalue |-> value.svalue])
    [] value.type = "bool" -> Ok([js |-> "boolean", bvalue |-> value.bvalue])
    [] value.type = "complex" ->
         [raised |-> JsError("Passing complex number to external functions is not supported."),
          value |-> JsUndefined]
    [] OTHER ->
         [raised |-> JsError("Unmarshalling of py-slang type '" \o value.type
                               \o "' is not supported for external functions."),
          value |-> JsUndefined]

\* func(...jsArgument)
HostApply(func, jsArgument) ==
  CASE func = "one" -> [js |-> "bigint", value |-> 1]
    [] func = "half" -> [js |-> "number", num |-> 1, den |-> 2]
    [] func = "name" -> [js |-> "string", svalue |-> "a"]
    [] func = "yes" -> [js |-> "boolean", bvalue |-> TRUE]
    [] func = "nothing" -> [js |-> "null"]
    [] func = "first" -> IF jsArgument = <<>> THEN [js |-> "undefined"] ELSE jsArgument[1]

\* new JsClosure(signature, func, context)
JsClosure(m, func) == [type |-> "JsClosure", id |-> m.objectCount, func |-> func]

\* JsClosure.call(args): the value returned or the error thrown, and the
\* invocation of the host function when it took place
JsClosureCall(callable, args) ==
  LET bad == {i \in DOMAIN args : unmarshalFromPy(args[i]).raised.name # "none"}
  IN IF bad # {}
       THEN [raised |-> unmarshalFromPy(args[CHOOSE i \in bad : \A j \in bad : i <= j]).raised,
             value |-> JsUndefined, invoked |-> <<>>]
       ELSE LET jsArgument == [i \in DOMAIN args |-> unmarshalFromPy(args[i]).value]
                result == HostApply(callable.func, jsArgument)
            IN [raised |-> marshalToPy(result).raised,
                value |-> marshalToPy(result).value,
                invoked |-> << [func |-> callable.func, jsArgument |-> jsArgument,
                                result |-> result,
                                returned |-> marshalToPy(result).value] >>]

\* the args array of Application: numOfArgs pops, unshifted (an empty stash
\* pops undefined)
PoppedArgs(stash, n) ==
  IF Len(stash) >= n THEN SubSeq(stash, Len(stash) - n + 1, Len(stash))
  ELSE [i \in 1..(n - Len(stash)) |-> JsUndefined] \o stash

\* BuiltInFunctions._int
BuiltIn_int(m, args) ==
  StashPush(m,
    IF args = <<>> THEN VBigInt(0)
    ELSE CASE args[1].type = "number" /\ ~IsNaN(args[1]) ->
                VBigInt(IF args[1].num < 0 THEN -(Abs(args[1].num) \div args[1].den)
                                           ELSE args[1].num \div args[1].den)
           [] args[1].type = "bigint" -> VBigInt(args[1].value)
           [] OTHER -> VError("TypeError: int() argument must be a string, a bytes-like object or a real number, not '"
                                \o args[1].type \o "'"))

InstrApplication(m, command) ==
  LET n == command.numOfArgs
      args == PoppedArgs(m.stash, n)
      rest == IF Len(m.stash) >= n THEN SubSeq(m.stash, 1, Len(m.stash) - n) ELSE <<>>
      callable == IF rest = <<>> THEN JsUndefined ELSE Last(rest)
      m1 == [m EXCEPT !.stash = IF rest = <<>> THEN <<>> ELSE Front(rest)]
  IN CASE callable.type = "PyClosure" ->
            LET m2 == ControlPush(m1,
                        IF callable.node.kind = "FunctionDef"
                          THEN << [instrType |-> "Reset", srcNode |-> command.srcNode],
                                  [instrType |-> "EndOfFunctionBody", srcNode |-> command.srcNode] >>
                          ELSE << [instrType |-> "Reset", srcNode |-> command.srcNode] >>)
                newEnv == createEnvironment(m2, callable, args)
                m3 == pushEnvironment([m2 EXCEPT !.objectCount = @ + 1], newEnv)
            IN IF callable.node.kind = "FunctionDef"
                 THEN ControlPush(m3, Reverse(callable.node.body))
                 ELSE ControlPush(m3, << callable.node.body >>)
       [] callable.type = "JsClosure" ->
            LET result == JsClosureCall(callable, args)
                m2 == [m1 EXCEPT !.hostCalls = @ \o result.invoked]
            IN IF result.raised.name # "none" THEN Throw(m2, result.raised)
               ELSE IF marshalToPy([js |-> "object", obj |-> result.value]).raised.name # "none"
                 THEN Throw(m2, marshalToPy([js |-> "object", obj |-> result.value]).raised)
               ELSE StashPush(m2, marshalToPy([js |-> "object", obj |-> result.value]).value)
       [] callable.type = "function" ->
            IF callable.name = "print"
              THEN \* BuiltInFunctions.print
                   StashPush([m1 EXCEPT !.output = @ \o JoinArgs(args) \o "\n"], VUndefined)
              ELSE BuiltIn_int(m1, args)
       [] OTHER -> Throw(m1, [name |-> "TypeError", message |-> "callable is not a function"])

InstrBranch(m, command) ==
  LET condition == StashPeek(m)
      m1 == StashDrop(m)
      chosen == IF ~isFalsy(condition) THEN command.consequent ELSE command.alternate
  IN IF condition.type = "js_undefined"
       THEN Throw(m1, [name |-> "TypeError", message |-> "Cannot read properties of undefined (reading 'type')"])
     ELSE IF "type" \in DOMAIN chosen /\ chosen.type = "StatementSequence"
       THEN ControlPush(m1, Reverse(chosen.body))
     ELSE ControlPush(m1, << chosen >>)

\* one iteration of the loop of pyGenerateCSEMachineStateStream: pop the
\* command and dispatch on the node's constructor name or the instrType
Dispatch(m0) ==
  LET command == Last(m0.control)
      m == [m0 EXCEPT !.control = Front(@)]
  IN IF ~IsInstr(command) THEN
       CASE command.kind = "FileInput" -> ControlPush(m, Reverse(command.statements))
         [] command.kind = "SimpleExpr" -> ControlPush(m, << command.expression >>)
         [] command.kind = "Literal" ->
              (CASE command.jstype = "boolean" -> StashPush(m, VBool(command.bvalue))
                 [] command.jstype = "string" -> StashPush(m, VString(command.svalue))
                 [] command.jstype = "number" -> StashPush(m, VNumber(command.num, command.den))
                 [] OTHER -> StashPush(m, VUndefined))
         [] command.kind = "BigIntLiteral" -> StashPush(m, VBigInt(command.value))
         [] command.kind = "Complex" ->
              StashPush(m, [type |-> "complex", real |-> command.real, imag |-> command.imag])
         [] command.kind = "Unary" ->
              ControlPush(m, << [instrType |-> "UnaryOperation", symbol |-> command.operator,
                                 srcNode |-> command],
                                command.right >>)
         [] command.kind = "Binary" ->
              ControlPush(m, << binOpInstr(command.operator, command),
                                command.right, command.left >>)
         [] command.kind = "BoolOp" ->
              ControlPush(m, << [instrType |-> "BoolOperation", symbol |-> command.operator,
                                 srcNode |-> command],
                                command.right, command.left >>)
         [] command.kind = "Grouping" -> ControlPush(m, << command.expression >>)
         [] command.kind = "None" -> StashPush(m, VUndefined)
         [] command.kind = "Variable" ->
              (LET r == pyGetVariable(m, command.name)
               IN IF r.raised.name # "none" THEN Throw(m, r.raised) ELSE StashPush(m, r.value))
         [] command.kind = "Compare" ->
              ControlPush(m, << binOpInstr(command.operator, command),
                                command.right, command.left >>)
         [] command.kind = "Assign" ->
              ControlPush(m, << [instrType |-> "Assignment", symbol |-> command.name,
                                 constant |-> FALSE, declaration |-> TRUE, srcNode |-> command],
                                command.value >>)
         [] command.kind = "Call" ->
              ControlPush(m, << [instrType |-> "Application", numOfArgs |-> Len(command.args),
                                 srcNode |-> command] >>
                               \o Reverse(command.args) \o << command.callee >>)
         [] command.kind = "FunctionDef" ->
              (LET closure == PyClosure(m, command, scanForAssignments(command.body))
               IN pyDefineVariable([m EXCEPT !.objectCount = @ + 1], command.name, closure))
         [] command.kind = "Lambda" ->
              (LET closure == PyClosure(m, command, scanForAssignments(<< command.body >>))
               IN StashPush([m EXCEPT !.objectCount = @ + 1], closure))
         [] command.kind = "Return" -> EvalReturn(m, command)
         [] command.kind = "If" ->
              ControlPush(m, << [instrType |-> "Branch",
                                 consequent |-> StatementSequence(command.body),
                                 alternate |-> StatementSequence(command.elseBlock),
                                 srcNode |-> command],
                                command.condition >>)
         [] command.kind = "Ternary" ->
              ControlPush(m, << [instrType |-> "Branch", consequent |-> command.consequent,
                                 alternate |-> command.alternative, srcNode |-> command],
                                command.predicate >>)
         [] command.kind = "FromImport" -> m
         [] OTHER -> Throw(m, [name |-> "Error", message |-> "Unknown Python AST node type: " \o command.kind])
     ELSE
       CASE command.instrType = "UnaryOperation" -> InstrUnaryOp(m, command)
         [] command.instrType = "BinaryOperation" -> InstrBinaryOp(m, command)
         [] command.instrType = "BoolOperation" -> InstrBoolOp(m, command)
         [] command.instrType = "Assignment" -> InstrAssignment(m, command)
         [] command.instrType = "Application" -> InstrApplication(m, command)
         [] command.instrType = "Reset" ->
              \* popEnvironment
              [m EXCEPT !.environments = Tail(@)]
         [] command.instrType = "EndOfFunctionBody" -> StashPush(m, VUndefined)
         [] command.instrType = "Branch" -> InstrBranch(m, command)
         [] command.instrType = "Pop" -> StashDrop(m)
         [] OTHER -> Throw(m, [name |-> "Error", message |-> "Unknown instruction type"])

(***************************************************************************)
(* State: the PyEvaluator instances, the context they use, the module      *)
(* cache and the evaluateChunk calls in progress                           *)
(***************************************************************************)
VARIABLES
  control,       \* context.control
  stash,         \* context.stash
  environments,  \* context.runtime.environments
  frames,        \* the environment objects
  output,        \* context.output
  errors,        \* context.errors
  objectCount,   \* context.runtime.objectCount
  steps,         \* the step counter of the running generator
  envStepsTotal, \* context.runtime.envStepsTotal
  isRunning,     \* context.runtime.isRunning
  conductor,     \* context.nativeStorage.conductor (0: undefined)
  raised,        \* the exception that stopped the machine loop, if any
  pc,            \* "idle": no synchronous code is running; "running": inside PyEvaluate
  chunk,         \* index of the chunk being evaluated (0: none yet)
  evaluator,     \* index of the PyEvaluator whose evaluateChunk is inside PyEvaluate
  evaluators,    \* the PyEvaluator instances created so far
  moduleCache,   \* moduleCache: module name -> index of its promise in promises
  promises,      \* the load promises created by loadModuleBundle
  waiting,       \* the evaluateChunk calls suspended in preloadModules
  log,           \* one entry per completed evaluateChunk: what it sent to the conductor
  hostCalls,     \* history: the invocations of host functions by JsClosure.call
  source,        \* Tokenizer.source: the indentation of each of its lines
  current,       \* Tokenizer.current: the next item of the source to scan
  indentStack,   \* Tokenizer.indentStack, top = last element
  tokens,        \* Tokenizer.tokens: the types of the tokens emitted
  tokPc,         \* position in scanEverything: "scan", "unravel", "done", "error"
  tokError,      \* the name of the error scanToken threw, "" when none
  calls          \* history: the calls in progress, innermost last, each with
                 \* the frame it pushed and the frame that was current before

contextVars == << control, stash, environments, frames, output, errors, objectCount,
                  steps, envStepsTotal, isRunning, raised >>

moduleVars == << moduleCache, promises, waiting >>

tokVars == << source, current, indentStack, tokens, tokPc, tokError >>

vars == << control, stash, environments, frames, output, errors, objectCount,
           steps, envStepsTotal, isRunning, conductor, raised, pc, chunk, evaluator,
           evaluators, moduleCache, promises, waiting, log, hostCalls, calls,
           source, current, indentStack, tokens, tokPc, tokError >>

Machine ==
  [control |-> control, stash |-> stash, environments |-> environments,
   frames |-> frames, output |-> output, errors |-> errors,
   objectCount |-> objectCount, raised |-> raised, hostCalls |-> hostCalls]

\* the one PyContext of the module: const defaultContext = new PyContext()
DefaultContext == 1

\* new PyEvaluator(conductor): the fields this.conductor and this.context
PyEvaluator(c) == [conductor |-> c, context |-> DefaultContext]

\* no Tokenizer is at work
NoTokenizer ==
  /\ source = <<>>
  /\ current = 1
  /\ indentStack = << 0 >>
  /\ tokens = <<>>
  /\ tokPc = "done"
  /\ tokError = ""

\* new PyContext() (defaultContext) and the first new PyEvaluator(conductor)
Init ==
  /\ control = <<>>
  /\ stash = <<>>
  /\ environments = << GlobalFrame >>
  /\ frames = << createGlobalEnvironment >>
  /\ output = ""
  /\ errors = <<>>
  /\ objectCount = 0
  /\ steps = 0
  /\ envStepsTotal = 0
  /\ isRunning = FALSE
  /\ conductor = 1
  /\ raised = NoError
  /\ pc = "idle"
  /\ chunk = 0
  /\ evaluator = 0
  /\ evaluators = << PyEvaluator(1) >>
  /\ moduleCache = << >>
  /\ promises = <<>>
  /\ waiting = <<>>
  /\ log = <<>>
  /\ hostCalls = <<>>
  /\ calls = <<>>
  /\ NoTokenizer

\* new PyEvaluator(conductor) for one more conductor: the instance takes
\* defaultContext and stores its conductor in it
NewPyEvaluator ==
  /\ pc = "idle"
  /\ Len(evaluators) < MaxEvaluators
  /\ evaluators' = Append(evaluators, PyEvaluator(Len(evaluators) + 1))
  /\ conductor' = Len(evaluators) + 1
  /\ UNCHANGED << contextVars, moduleVars, pc, chunk, evaluator, log, hostCalls, calls >>
  /\ UNCHANGED tokVars

\* loadModuleBundle without the cache test
loadModuleBundleUncached(ld, moduleName) ==
  [moduleCache |-> [n \in (DOMAIN ld.moduleCache) \cup {moduleName} |->
                      IF n = moduleName THEN Len(ld.promises) + 1 ELSE ld.moduleCache[n]],
   promises |-> Append(ld.promises, [module |-> moduleName, state |-> "pending", fetched |-> "pending", error |-> NoError]),
   awaited |-> Append(ld.awaited, Len(ld.promises) + 1)]

\* loadModuleBundle up to its return: a cached promise is returned, otherwise
\* the fetch is issued and its promise is put in the cache.  ld carries the
\* cache, the promises and the promises handed to the caller so far
loadModuleBundle(ld, moduleName) ==
  IF moduleName \in DOMAIN ld.moduleCache
    THEN [ld EXCEPT !.awaited = Append(@, ld.moduleCache[moduleName])]
    ELSE [moduleCache |-> [n \in (DOMAIN ld.moduleCache) \cup {moduleName} |->
                             IF n = moduleName THEN Len(ld.promises) + 1
                                               ELSE ld.moduleCache[n]],
          promises |-> Append(ld.promises, [module |-> moduleName, state |-> "pending", fetched |-> "pending", error |-> NoError]),
          awaited |-> Append(ld.awaited, Len(ld.promises) + 1)]

\* moduleNames.map(name => loadModuleBundle(name, context))
RECURSIVE loadModuleBundles(_, _)
loadModuleBundles(ld, moduleNames) ==
  IF moduleNames = <<>> THEN ld
  ELSE loadModuleBundles(loadModuleBundle(ld, Head(moduleNames)), Tail(moduleNames))

\* PyEvaluate up to the machine loop, for chunk c of evaluator e
PyEvaluateStart(e, c) ==
  /\ isRunning' = TRUE
  /\ control' = << Program(c) >>
  /\ raised' = NoError
  /\ pc' = "running"
  /\ calls' = <<>>
  /\ steps' = 0
  /\ chunk' = c
  /\ evaluator' = e

\* PyEvaluator.evaluateChunk of evaluator e up to its first suspension:
\* runPyAST (tokenize, parse, resolve); when it throws, the catch clause sends
\* "Error: <message>".  Otherwise preloadModules: with no conductor or no
\* import it returns and PyEvaluate sets isRunning and loads the program
\* into a new PyControl; with imports it calls loadModuleBundle for each
\* module and the call is suspended on Promise.all
EvaluateChunk(e, c) ==
  /\ pc = "idle"
  /\ Len(log) + Len(waiting) < MaxChunks
  /\ LET err == runPyAST(c)
         moduleNames == IF conductor = 0 THEN <<>>
                        ELSE findImportedModules(Program(c).statements)
         ld == loadModuleBundles([moduleCache |-> moduleCache, promises |-> promises,
                                  awaited |-> <<>>], moduleNames)
     IN IF err.name # "none"
          THEN /\ log' = Append(log, [chunk |-> c, outcome |-> "rejected",
                                      status |-> "none", value |-> JsUndefined,
                                      message |-> err.message,
                                      to |-> evaluators[e].conductor,
                                      sent |-> "Error: " \o err.message])
               /\ chunk' = c
               /\ UNCHANGED << control, stash, environments, frames, output, errors,
                               objectCount, steps, envStepsTotal, isRunning, raised,
                               pc, evaluator, moduleVars, hostCalls, calls >>
        ELSE IF moduleNames = <<>>
          THEN /\ PyEvaluateStart(e, c)
               /\ UNCHANGED << stash, environments, frames, output, errors,
                               objectCount, envStepsTotal, log, moduleVars, hostCalls >>
        ELSE /\ moduleCache' = ld.moduleCache
             /\ promises' = ld.promises
             /\ waiting' = Append(waiting, [evaluator |-> e, chunk |-> c,
                                            moduleNames |-> moduleNames,
                                            awaited |-> ld.awaited])
             /\ UNCHANGED << contextVars, pc, chunk, evaluator, log, hostCalls, calls >>
  /\ UNCHANGED << conductor, evaluators >>
  /\ UNCHANGED tokVars

\* what the network and the bundle can do to one load: the response is ok and
\* the bundle runs ("ok"), the response is not ok ("notOk"), the fetch request
\* is rejected ("rejected"), the code of the bundle throws ("throws")
FetchOutcomes == { "ok", "notOk", "rejected", "throws" }

\* the async function of loadModuleBundle from the end of the fetch on: the
\* try block and its catch clause, which rethrows a ModuleConnectionError
\* and wraps everything else in a ModuleInternalError
loadPromise(moduleName, fetched) ==
  LET thrown == CASE fetched = "notOk" ->
                       [name |-> "ModuleConnectionError",
                        message |-> "Unable to connect to module servers"]
                  [] fetched = "rejected" -> [name |-> "TypeError", message |-> "fetch failed"]
                  [] fetched = "throws" -> JsError("bundle failure")
                  [] OTHER -> NoError
  IN [module |-> moduleName,
      fetched |-> fetched,
      state |-> IF thrown = NoError THEN "resolved" ELSE "rejected",
      error |-> IF thrown.name \in {"none", "ModuleConnectionError"}
                  THEN thrown
                  ELSE [name |-> "ModuleInternalError",
                        message |-> "Error in module " \o moduleName \o ":\n"
                                      \o thrown.message]]

\* the fetch of a load promise ends and the promise settles
FetchSettle(p, outcome) ==
  /\ pc = "idle"
  /\ promises[p].state = "pending"
  /\ promises' = [promises EXCEPT ![p] = loadPromise(@.module, outcome)]
  /\ UNCHANGED << contextVars, conductor, pc, chunk, evaluator, evaluators,
                  moduleCache, waiting, log, hostCalls, calls >>
  /\ UNCHANGED tokVars

\* the module object preloadModules builds: one JsClosure per export, ids
\* taken from objectCount on
processedModule(moduleName, count) ==
  [type |-> "js_object",
   members |-> [i \in DOMAIN ModuleExports(moduleName) |->
                  [name |-> ModuleExports(moduleName)[i],
                   closure |-> [type |-> "JsClosure", id |-> count + i - 1,
                                func |-> ModuleExports(moduleName)[i]]]]]

\* the two loops of preloadModules after Promise.all: closures are made for
\* every module, then every module is defined in the global environment
RECURSIVE defineModules(_, _)
defineModules(m, moduleNames) ==
  IF moduleNames = <<>> THEN m
  ELSE LET made == processedModule(Head(moduleNames), m.objectCount)
           globalEnv == m.environments[Len(m.environments)]
           m1 == [m EXCEPT !.objectCount = @ + Len(made.members),
                           !.frames[globalEnv].head = Bind(@, Head(moduleNames), made)]
       IN defineModules(m1, Tail(moduleNames))

\* a suspended evaluateChunk call goes on: Promise.all has rejected (one
\* promise is rejected: the catch clause of evaluateChunk sends the error)
\* or has resolved (the modules are defined and PyEvaluate starts)
ResumeChunk(i) ==
  /\ pc = "idle"
  /\ i \in DOMAIN waiting
  /\ LET call == waiting[i]
         rejected == {j \in DOMAIN call.awaited :
                        promises[call.awaited[j]].state = "rejected"}
         m == defineModules(Machine, call.moduleNames)
     IN /\ waiting' = SubSeq(waiting, 1, i - 1) \o SubSeq(waiting, i + 1, Len(waiting))
        /\ \/ /\ rejected # {}
              /\ \E j \in rejected :
                   LET error == promises[call.awaited[j]].error
                   IN log' = Append(log, [chunk |-> call.chunk, outcome |-> "rejected",
                                          status |-> "none", value |-> JsUndefined,
                                          message |-> error.message,
                                          to |-> evaluators[call.evaluator].conductor,
                                          sent |-> "Error: " \o error.message])
              /\ chunk' = call.chunk
              /\ UNCHANGED << contextVars, pc, evaluator, calls >>
           \/ /\ \A j \in DOMAIN call.awaited : promises[call.awaited[j]].state = "resolved"
              /\ PyEvaluateStart(call.evaluator, call.chunk)
              /\ frames' = m.frames
              /\ objectCount' = m.objectCount
              /\ UNCHANGED << stash, environments, output, errors, envStepsTotal, log >>
  /\ UNCHANGED << conductor, evaluators, moduleCache, promises, hostCalls >>
  /\ UNCHANGED tokVars

\* the loop of pyGenerateCSEMachineStateStream with a test of the step limit
LoopWithinStepLimit == control # <<>> /\ raised.name = "none" /\ steps < stepLimit

\* while (command): the loop of pyGenerateCSEMachineStateStream goes on, as
\* no exception has left it and the control is not empty
LoopContinues == control # <<>> /\ raised.name = "none"

\* one iteration of the machine loop
Step ==
  /\ pc = "running"
  /\ LoopContinues
  /\ LET command == Last(control)
         m == Dispatch(Machine)
     IN /\ control' = m.control
        /\ stash' = m.stash
        /\ environments' = m.environments
        /\ frames' = m.frames
        /\ output' = m.output
        /\ errors' = m.errors
        /\ objectCount' = m.objectCount
        /\ raised' = m.raised
        /\ hostCalls' = m.hostCalls
        /\ steps' = IF m.raised.name = "none" THEN steps + 1 ELSE steps
        /\ envStepsTotal' = IF m.raised.name = "none" THEN steps + 1 ELSE envStepsTotal
        /\ calls' = IF IsInstr(command) /\ command.instrType = "Application"
                         /\ Len(m.environments) > Len(environments)
                      THEN Append(calls, [frame |-> m.environments[1],
                                          caller |-> environments[1]])
                    ELSE IF IsReset(command) /\ calls # <<>> THEN Front(calls)
                    ELSE calls
  /\ UNCHANGED << isRunning, conductor, pc, chunk, evaluator, evaluators, moduleVars, log >>
  /\ UNCHANGED tokVars

\* the value pyRunCSEMachine returns once the loop has ended
pyRunCSEMachineResult ==
  IF stash = <<>> \/ Last(stash).type = "js_undefined" THEN VUndefined ELSE Last(stash)

\* PyEvaluate without its catch clause: the exception is lost and the
\* stash top returned
PyEvaluateResultUncaught ==
  IF output # "" THEN VString(output) ELSE pyRunCSEMachineResult

\* the value PyEvaluate returns
PyEvaluateResult ==
  IF raised.name # "none" THEN VError(raised.message)
  ELSE IF output # "" THEN VString(output)
  ELSE pyRunCSEMachineResult

\* what PyCSEResultPromise resolves with (a value is never a CSEBreak)
PyCSEResultPromise(value) ==
  [status |-> "finished", value |-> value, representation |-> (IF value.type = "error" THEN value.message
                          ELSE toPythonString(value))]

\* the machine loop has ended (control empty, or an exception): PyEvaluate
\* returns through catch/finally, PyCSEResultPromise resolves and
\* evaluateChunk sends the representation
Finish ==
  /\ pc = "running"
  /\ ~LoopContinues
  /\ isRunning' = FALSE
  /\ pc' = "idle"
  /\ log' = Append(log, [chunk |-> chunk,
                         outcome |-> IF raised.name # "none" THEN "error" ELSE "finished",
                         status |-> PyCSEResultPromise(PyEvaluateResult).status,
                         value |-> PyCSEResultPromise(PyEvaluateResult).value,
                         message |-> raised.message,
                         to |-> evaluators[evaluator].conductor,
                         sent |-> PyCSEResultPromise(PyEvaluateResult).representation])
  /\ UNCHANGED << control, stash, environments, frames, output, errors, objectCount,
                  steps, envStepsTotal, raised, conductor, chunk, evaluator, evaluators,
                  moduleVars, hostCalls, calls >>
  /\ UNCHANGED tokVars

Next ==
  \/ \E e \in DOMAIN evaluators, c \in DOMAIN Chunks : EvaluateChunk(e, c)
  \/ Step
  \/ Finish

Spec == Init /\ [][Next]_vars

\* one generated chunk is run
BinaryNext ==
  \/ /\ log = <<>>
     /\ pc = "idle"
     /\ \E c \in BinaryChunks : EvaluateChunk(1, c)
  \/ Step
  \/ Finish

BinarySpec == Init /\ [][BinaryNext]_vars

\* one chunk of OrderChunks is run
OrderNext ==
  \/ /\ log = <<>>
     /\ \E i \in DOMAIN OrderChunks : EvaluateChunk(1, FirstOrder + i - 1)
  \/ Step
  \/ Finish

OrderSpec == Init /\ [][OrderNext]_vars

\* one chunk of OrderChunks or the chunk that never ends is run, with
\* options.stepLimit = stepLimit; the run is followed for MaxSteps steps
LimitNext ==
  \/ /\ log = <<>>
     /\ \E c \in FirstOrder..(FirstOrder + Len(OrderChunks)) : EvaluateChunk(1, c)
  \/ steps < MaxSteps /\ Step
  \/ Finish

LimitSpec == Init /\ [][LimitNext]_vars

\* one chunk of ResolverChunks is resolved and, when the resolver accepts
\* it, run
ResolverNext ==
  \/ /\ log = <<>>
     /\ \E i \in DOMAIN ResolverChunks : EvaluateChunk(1, FirstResolver + i - 1)
  \/ Step
  \/ Finish

ResolverSpec == Init /\ [][ResolverNext]_vars

\* one chunk of MachineChunks is run and then, possibly, its first chunk,
\* which assigns to a name that some of the chunks have bound
MachineNext ==
  \/ \E i \in DOMAIN MachineChunks :
       /\ log = <<>> \/ i = 1
       /\ EvaluateChunk(1, FirstMachine + i - 1)
  \/ Step
  \/ Finish

MachineSpec == Init /\ [][MachineNext]_vars

\* one chunk of SourceChunks is sent, or its sixth chunk and then others:
\* a chunk that fails then finds the context the sixth chunk has left
SourceNext ==
  \/ \E i \in DOMAIN SourceChunks :
       /\ (log = <<>> /\ waiting = <<>>) \/ (log # <<>> /\ log[1].chunk = FirstSource + 5)
       /\ EvaluateChunk(1, FirstSource + i - 1)
  \/ \E p \in DOMAIN promises, outcome \in FetchOutcomes : FetchSettle(p, outcome)
  \/ \E i \in DOMAIN waiting : ResumeChunk(i)
  \/ Step
  \/ Finish

SourceSpec == Init /\ [][SourceNext]_vars

(***************************************************************************)
(* Several PyEvaluator instances and chunks that import modules            *)
(***************************************************************************)
ModuleNext ==
  \/ NewPyEvaluator
  \/ \E e \in DOMAIN evaluators, c \in (Len(Chunks) + 1)..(Len(Chunks) + Len(ModuleChunks)) :
       EvaluateChunk(e, c)
  \/ \E p \in DOMAIN promises, outcome \in FetchOutcomes :
       FetchSettle(p, outcome)
  \/ \E i \in DOMAIN waiting : ResumeChunk(i)
  \/ Step
  \/ Finish

ModuleSpec == Init /\ [][ModuleNext]_vars

(***************************************************************************)
(* The Application handler on a foreign closure: the machine is entered    *)
(* with a JsClosure made by closure_make and its arguments on the stash    *)
(***************************************************************************)
MaxHostArgs == 2

HostCallInit ==
  /\ \E func \in {"one", "half", "name", "yes", "nothing", "first"}, n \in 0..MaxHostArgs :
       \E args \in [1..n -> { VBigInt(2), [type |-> "number", num |-> 1, den |-> 2],
                              VString("s"), VBool(FALSE), VUndefined,
                              [type |-> "complex", real |-> 1, imag |-> 2] }] :
         /\ stash = << [type |-> "JsClosure", id |-> 0, func |-> func] >> \o args
         /\ control = << [instrType |-> "Application", numOfArgs |-> n, srcNode |-> Call(Variable(func), <<>>)] >>
  /\ environments = << GlobalFrame >>
  /\ frames = << createGlobalEnvironment >>
  /\ output = ""
  /\ errors = <<>>
  /\ objectCount = 1
  /\ steps = 0
  /\ envStepsTotal = 0
  /\ isRunning = TRUE
  /\ raised = NoError
  /\ pc = "running"
  /\ chunk = 0
  /\ conductor = 1
  /\ evaluator = 1
  /\ evaluators = << PyEvaluator(1) >>
  /\ moduleCache = << >>
  /\ promises = <<>>
  /\ waiting = <<>>
  /\ log = <<>>
  /\ hostCalls = <<>>
  /\ calls = <<>>
  /\ NoTokenizer

HostCallNext ==
  \/ Step
  \/ Finish

HostCallSpec == HostCallInit /\ [][HostCallNext]_vars

(***************************************************************************)
(* The Tokenizer on the indentation of a source.  A source is given by the *)
(* number of leading spaces of each of its lines; every line holds one     *)
(* name and ends with a newline (runPyAST appends the last one).  Item     *)
(* 2i-1 of the source is the name of line i, item 2i its newline           *)
(***************************************************************************)
MaxLines == 4

\* cap on the tokens kept while the second loop of scanEverything runs
MaxTokens == 24

evaluatorVars == << contextVars, moduleVars, conductor, pc, chunk, evaluator, evaluators,
                    log, hostCalls, calls >>

\* new Tokenizer(source)
TokInit ==
  /\ \E n \in 1..MaxLines :
       \E lines \in [1..n -> {0, 2, 4, 8}] :
         /\ lines[1] = 0
         /\ source = lines
  /\ current = 1
  /\ indentStack = << 0 >>
  /\ tokens = <<>>
  /\ tokPc = "scan"
  /\ tokError = ""
  /\ control = <<>>
  /\ stash = <<>>
  /\ environments = << GlobalFrame >>
  /\ frames = << createGlobalEnvironment >>
  /\ output = ""
  /\ errors = <<>>
  /\ objectCount = 0
  /\ steps = 0
  /\ envStepsTotal = 0
  /\ isRunning = FALSE
  /\ conductor = 1
  /\ raised = NoError
  /\ pc = "idle"
  /\ chunk = 0
  /\ evaluator = 0
  /\ evaluators = << PyEvaluator(1) >>
  /\ moduleCache = << >>
  /\ promises = <<>>
  /\ waiting = <<>>
  /\ log = <<>>
  /\ hostCalls = <<>>
  /\ calls = <<>>

isAtEnd == current > 2 * Len(source)

addToken(toks, type) == Append(toks, type)

RECURSIVE addTokens(_, _, _)
addTokens(toks, type, n) ==
  IF n <= 0 THEN toks ELSE addTokens(addToken(toks, type), type, n - 1)

\* Array.pop n times: popping an empty array leaves it empty
RECURSIVE popN(_, _)
popN(stack, n) ==
  IF n <= 0 \/ stack = <<>> THEN stack ELSE popN(Front(stack), n - 1)

\* accLeadingWhiteSpace after the newline of line i: the leading spaces of
\* the next line, 0 at the end of the source
accLeadingWhiteSpace(i) == IF i < Len(source) THEN source[i + 1] ELSE 0

\* scanToken, case '\n' outside parentheses: NEWLINE, then the indentation
\* of the next line against the top of indentStack (an empty stack has top
\* undefined: both comparisons are false)
ScanNewline(i) ==
  LET acc == accLeadingWhiteSpace(i)
      toks == addToken(tokens, "NEWLINE")
  IN IF acc % 4 # 0
       THEN /\ tokError' = "NonFourIndentError"
            /\ tokPc' = "error"
            /\ tokens' = toks
            /\ UNCHANGED indentStack
     ELSE IF indentStack = <<>>
       THEN /\ tokens' = toks
            /\ UNCHANGED << indentStack, tokPc, tokError >>
     ELSE IF acc > Last(indentStack)
       THEN /\ indentStack' = Append(indentStack, acc)
            /\ tokens' = addTokens(toks, "INDENT", (acc - Last(indentStack)) \div 4)
            /\ UNCHANGED << tokPc, tokError >>
     ELSE IF acc < Last(indentStack)
       THEN /\ indentStack' = popN(indentStack, (Last(indentStack) - acc) \div 4)
            /\ tokens' = addTokens(toks, "DEDENT", (Last(indentStack) - acc) \div 4)
            /\ UNCHANGED << tokPc, tokError >>
     ELSE /\ tokens' = toks
          /\ UNCHANGED << indentStack, tokPc, tokError >>

\* one iteration of the first loop of scanEverything: scanToken on a name
\* or on a newline
ScanToken ==
  /\ tokPc = "scan"
  /\ ~isAtEnd
  /\ current' = current + 1
  /\ IF current % 2 = 1
       THEN /\ tokens' = addToken(tokens, "NAME")
            /\ UNCHANGED << indentStack, tokPc, tokError >>
       ELSE ScanNewline(current \div 2)
  /\ UNCHANGED << source, evaluatorVars >>

\* the first loop of scanEverything ends
ScanEnd ==
  /\ tokPc = "scan"
  /\ isAtEnd
  /\ tokPc' = "unravel"
  /\ UNCHANGED << source, current, indentStack, tokens, tokError, evaluatorVars >>

\* one iteration of the second loop of scanEverything: the top of the
\* stack is not 0 (the top of an empty stack is undefined)
Unravel ==
  /\ tokPc = "unravel"
  /\ IF indentStack = <<>> THEN TRUE ELSE Last(indentStack) # 0
  /\ indentStack' = popN(indentStack, 1)
  /\ tokens' = IF Len(tokens) < MaxTokens THEN addToken(tokens, "DEDENT") ELSE tokens
  /\ UNCHANGED << source, current, tokPc, tokError, evaluatorVars >>

\* the second loop has ended: ENDMARKER is pushed and the tokens returned
EndMarker ==
  /\ tokPc = "unravel"
  /\ IF indentStack = <<>> THEN FALSE ELSE Last(indentStack) = 0
  /\ tokens' = addToken(tokens, "ENDMARKER")
  /\ tokPc' = "done"
  /\ UNCHANGED << source, current, indentStack, tokError, evaluatorVars >>

TokNext ==
  \/ ScanToken
  \/ ScanEnd
  \/ Unravel
  \/ EndMarker

\* scanEverything runs on: its loops are not suspended
TokSpec == TokInit /\ [][TokNext]_vars /\ WF_vars(TokNext)

(***************************************************************************)
(* The Tokenizer on the characters of a one-line source.  source is the    *)
(* sequence of its characters, current the index of the next one, and a    *)
(* token is a record of its type, its lexeme (a sequence of characters)    *)
(* and its indexInSource (counted from 1)                                  *)
(***************************************************************************)
MaxPieces == 4

\* new Tokenizer(code + "\n"): the code is a line made of names, the words
\* is, not and in, blanks, a string literal, = and a comment
LexInit ==
  /\ \E n \in 1..MaxPieces :
       \E pieces \in [1..n -> { << "x" >>, << "i", "s" >>, << "n", "o", "t" >>, << "i", "n" >>,
                                << " " >>, << "\"", "a", "\"" >>, << "=" >>, << "#", "c" >> }] :
         LET RECURSIVE Join(_)
             Join(k) == IF k > n THEN << "\n" >> ELSE pieces[k] \o Join(k + 1)
         IN source = Join(1)
  /\ current = 1
  /\ indentStack = << 0 >>
  /\ tokens = <<>>
  /\ tokPc = "scan"
  /\ tokError = ""
  /\ control = <<>>
  /\ stash = <<>>
  /\ environments = << GlobalFrame >>
  /\ frames = << createGlobalEnvironment >>
  /\ output = ""
  /\ errors = <<>>
  /\ objectCount = 0
  /\ steps = 0
  /\ envStepsTotal = 0
  /\ isRunning = FALSE
  /\ conductor = 1
  /\ raised = NoError
  /\ pc = "idle"
  /\ chunk = 0
  /\ evaluator = 0
  /\ evaluators = << PyEvaluator(1) >>
  /\ moduleCache = << >>
  /\ promises = <<>>
  /\ waiting = <<>>
  /\ log = <<>>
  /\ hostCalls = <<>>
  /\ calls = <<>>


\* the index at which the loop `while (peek() is one of chars && !isAtEnd())
\* advance()` stops, started at index i; every source ends with a newline
RECURSIVE SkipWhile(_, _)
SkipWhile(i, chars) ==
  IF i <= Len(source) /\ source[i] \in chars THEN SkipWhile(i + 1, chars) ELSE i

\* the characters of the source
SourceChars == {source[i] : i \in DOMAIN source}

\* Tokenizer.name, entered with the first character at index start: the
\* tokens afterwards and the error thrown (addToken and overwriteToken
\* are written out)
name(start) ==
  LET \* Tokenizer.isIdentifier, on the characters of these sources
      isIdentifier == SourceChars \cap {"x", "i", "s", "n", "o", "t", "a", "c"}
      end == SkipWhile(start + 1, isIdentifier)
      identifier == SubSeq(source, start, end - 1)
      specialIdent == CASE identifier = << "i", "s" >> -> "IS"
                        [] identifier = << "n", "o", "t" >> -> "NOT"
                        [] identifier = << "i", "n" >> -> "IN"
                        [] OTHER -> "NAME"
      added == Append(tokens, [type |-> specialIdent, lexeme |-> identifier,
                               indexInSource |-> start])
      overwriteToken(type) ==
        LET previousToken == Last(tokens)
        IN [tokens EXCEPT ![Len(tokens)] =
              [type |-> type,
               lexeme |-> SubSeq(source, previousToken.indexInSource, end - 1),
               indexInSource |-> previousToken.indexInSource]]
  IN CASE specialIdent = "NOT" /\ tokens # <<>> ->
            [current |-> end, error |-> "",
             tokens |-> IF Last(tokens).type = "IS" THEN overwriteToken("ISNOT") ELSE added]
       [] specialIdent = "IN" /\ tokens = <<>> ->
            [current |-> end, error |-> "TypeError", tokens |-> tokens]
       [] specialIdent = "IN" /\ tokens # <<>> ->
            [current |-> end, error |-> "",
             tokens |-> IF Last(tokens).type = "NOT" THEN overwriteToken("NOTIN") ELSE added]
       [] OTHER -> [current |-> end, error |-> "", tokens |-> added]

\* one iteration of the first loop of scanEverything on a character source:
\* scanToken
LexScanToken ==
  /\ tokPc = "scan"
  /\ current <= Len(source)
  /\ LET c == source[current]
         NotQuote == SourceChars \ {"\"", "\n"}
         NotEol == SourceChars \ {"\n"}
         done(cur, toks) ==
           /\ current' = cur
           /\ tokens' = toks
           /\ UNCHANGED << tokPc, tokError >>
         throw(cur, e) ==
           /\ current' = cur
           /\ tokError' = e
           /\ tokPc' = "error"
           /\ UNCHANGED tokens
         token(type, lexeme, index) == [type |-> type, lexeme |-> lexeme, indexInSource |-> index]
     IN CASE c = "#" -> done(SkipWhile(current + 1, NotEol), tokens)
          [] c = " " -> done(current + 1, tokens)
          [] c = "\n" ->
               \* the last character: no line follows, accLeadingWhiteSpace is 0
               \* and equal to the top of the indent stack
               done(current + 1, Append(tokens, token("NEWLINE", << "\n" >>, current)))
          [] c = "\"" ->
               IF source[current + 1] = "\""
                 THEN \* the empty string: addStringToken with an empty lexemeBuffer
                      done(current + 2, Append(tokens, token("STRING", <<>>, current + 2)))
                 ELSE LET end == SkipWhile(current + 1, NotQuote)
                      IN IF source[end] = "\n"
                           THEN throw(end, "UnterminatedStringError")
                           ELSE \* addStringToken: the lexeme is lexemeBuffer, the
                                \* characters between the quotes
                                done(end + 1,
                                     Append(tokens,
                                            token("STRING", SubSeq(source, current + 1, end - 1),
                                                  (end + 1) - (end - current - 1))))
          [] c = "=" ->
               IF source[current + 1] = "="
                 THEN done(current + 2, Append(tokens, token("DOUBLEEQUAL", << "=", "=" >>, current)))
                 ELSE done(current + 1, Append(tokens, token("EQUAL", << "=" >>, current)))
          [] OTHER ->
               LET r == name(current)
               IN IF r.error # "" THEN throw(r.current, r.error) ELSE done(r.current, r.tokens)
  /\ UNCHANGED << source, indentStack, evaluatorVars >>

\* the end of scanEverything on a character source: the indent stack holds
\* its bottom entry only, so the second loop does nothing and ENDMARKER is
\* pushed
LexEnd ==
  /\ tokPc = "scan"
  /\ current > Len(source)
  /\ indentStack = << 0 >>
  /\ tokens' = Append(tokens, [type |-> "ENDMARKER", lexeme |-> <<>>, indexInSource |-> current])
  /\ tokPc' = "done"
  /\ UNCHANGED << source, current, indentStack, tokError, evaluatorVars >>

LexNext ==
  \/ LexScanToken
  \/ LexEnd

LexSpec == LexInit /\ [][LexNext]_vars

(***************************************************************************)
(* Properties                                                              *)
(***************************************************************************)
\* the step taken is the end of a chunk's evaluation that raised nothing
FinishedWithoutError == pc = "running" /\ pc' = "idle" /\ raised.name = "none"

\* the step taken is evaluateChunk receiving a chunk
ChunkReceived == pc = "idle" /\ (pc' = "running" \/ Len(log') = Len(log) + 1)


\* C1: for every chunk whose evaluation completes without error, what
\* evaluateChunk sends is the string representation of the top of the stash
\* at the moment the machine stops, also when print has written to
\* context.output in this chunk or an earlier one.
C1_SentIsTopOfStash ==
  [][FinishedWithoutError => Last(log').sent = toPythonString(StashPeek(Machine))]_vars

\* the names a program binds at top level
TopLevelBound(ast) ==
  {ast.statements[i].name :
     i \in {j \in DOMAIN ast.statements : ast.statements[j].kind \in {"Assign", "FunctionDef"}}}

\* the names bound at top level by the chunks evaluated successfully so far
AccumulatedNames ==
  UNION {TopLevelBound(Chunks[log[i].chunk]) :
           i \in {j \in DOMAIN log : log[j].outcome = "finished"}}

\* C2: chunks are evaluated against an accumulated context: a chunk whose
\* names are all either built in, bound by itself, or bound at top level by
\* an earlier successfully evaluated chunk is resolved and goes on to
\* evaluation (no name-not-found failure).
C2_AccumulatedContext ==
  [][(ChunkReceived
        /\ ResolveIn(ResolverGlobalNames \cup AccumulatedNames, Chunks[chunk']).name = "none")
       => pc' = "running"]_vars

\* a program with no expression statement: only assignments and definitions
NoExpressionStatement(ast) ==
  \A i \in DOMAIN ast.statements : ast.statements[i].kind \in {"Assign", "FunctionDef"}

\* C3: a chunk that evaluates no expression statement yields Undefined,
\* never a value left on the stash by an earlier chunk.
C3_NoValueYieldsUndefined ==
  [][(FinishedWithoutError /\ NoExpressionStatement(Chunks[chunk]))
       => pyRunCSEMachineResult = VUndefined]_vars

\* C4: a runtime error is fatal only to the current chunk: every chunk's
\* evaluation starts with runtime.environments holding only the global frame.
C4_ChunkStartsInGlobalFrame ==
  (pc = "running" /\ steps = 0) => environments = << GlobalFrame >>

\* an Application instruction is the next control item
ApplicationNext ==
  /\ pc = "running"
  /\ raised.name = "none"
  /\ control # <<>>
  /\ IsInstr(Last(control))
  /\ Last(control).instrType = "Application"

\* C5: whenever an Application(n) is executed the top n+1 stash entries are
\* the callee followed by the n argument values in source order: the callee
\* slot holds a callable (the value of the callee name when the callee is a
\* variable) and every literal argument sits at its position.
C5_ApplicationStashShape ==
  ApplicationNext =>
    LET n == Last(control).numOfArgs
        node == Last(control).srcNode
        base == Len(stash) - n
    IN /\ base >= 1
       /\ stash[base].type \in {"PyClosure", "function"}
       /\ node.callee.kind = "Variable"
            => stash[base] = pyGetVariable(Machine, node.callee.name).value
       /\ \A i \in 1..n :
            node.args[i].kind = "BigIntLiteral"
              => stash[base + i] = VBigInt(node.args[i].value)

\* C6: when a call to a user closure finishes, Reset pops exactly the frame
\* that call pushed and the current environment is again the frame that was
\* current when its Application was executed; a chunk that ends without an
\* error has no call left open.
C6_ResetRestoresCallerFrame ==
  [][/\ (pc = "running" /\ raised.name = "none" /\ control # <<>> /\ IsReset(Last(control)))
          => /\ calls # <<>>
             /\ environments[1] = Last(calls).frame
             /\ environments' = Tail(environments)
             /\ environments'[1] = Last(calls).caller
     /\ FinishedWithoutError => calls = <<>>]_vars

\* a call is current again after a call nested in it has finished
C6_Witness ==
  /\ pc = "running"
  /\ raised.name = "none"
  /\ Len(calls) = 1
  /\ environments[1] = Last(calls).frame
  /\ Len(frames) > Last(calls).frame

\* following tail pointers from frame e reaches the global frame within
\* fuel steps
RECURSIVE ReachesGlobal(_, _)
ReachesGlobal(e, fuel) ==
  IF e = GlobalFrame THEN TRUE
  ELSE IF e = 0 \/ fuel = 0 THEN FALSE
  ELSE ReachesGlobal(frames[e].tail, fuel - 1)

\* C7: from every frame on runtime.environments the tail chain has no cycle
\* and ends at the global environment, whose tail is null; the global frame
\* is the bottommost entry of runtime.environments.
C7_EnvironmentChain ==
  /\ \A i \in DOMAIN environments : ReachesGlobal(environments[i], Len(frames))
  /\ frames[GlobalFrame].tail = 0
  /\ Last(environments) = GlobalFrame

\* the current frame is a call frame whose tail is itself a call frame
C7_Witness ==
  /\ pc = "running"
  /\ Len(environments) >= 2
  /\ frames[environments[1]].tail \notin {0, GlobalFrame}
  /\ environments[1] # environments[2]

\* C8: the program that defines g, which reads x before assigning it
\* locally with x bound nowhere else, and calls g, ends with a runtime
\* UnboundLocalError that mentions x.
C8_UnboundLocalAtRuntime ==
  \A i \in DOMAIN log :
    log[i].chunk = 7 \* chunk 7 (UnboundNoOuter)
      => /\ log[i].outcome = "error"
         /\ log[i].sent = UnboundLocalError("x").message

\* C9: and / or are short-circuit: the right operand of a BoolOp is next to
\* be evaluated only when the left value (top of the stash) does not decide
\* the result: truthy for and, falsy for or.
C9_ShortCircuit ==
  (/\ pc = "running"
   /\ raised.name = "none"
   /\ Len(control) >= 2
   /\ stash # <<>>
   /\ IsInstr(control[Len(control) - 1])
   /\ control[Len(control) - 1].instrType = "BoolOperation"
   /\ ~IsInstr(Last(control))
   /\ Last(control) = control[Len(control) - 1].srcNode.right)
  => /\ control[Len(control) - 1].symbol = "and" => ~isFalsy(Last(stash))
     /\ control[Len(control) - 1].symbol = "or" => isFalsy(Last(stash))

\* C10: whenever evaluation stops with a type mismatch, divide-by-zero,
\* name-not-found or unbound-local fault, that error has been appended to
\* context.errors.
C10_FaultsAreRecorded ==
  raised.name \in {"UnsupportedOperandTypeError", "ZeroDivisionError",
                   "NameError", "UnboundLocalError"}
    => (errors # <<>> /\ Last(errors) = raised)

\* C11: PyEvaluate never throws: an exception raised while the machine runs
\* comes back as the Error value carrying its message and PyCSEResultPromise
\* resolves with status 'finished'; runtime.isRunning is true during the run
\* and false once PyEvaluate has returned, with or without an error.
C11_PyEvaluateCatches ==
  [][/\ pc = "running" => isRunning
     /\ (pc = "running" /\ pc' = "idle")
          => /\ ~isRunning'
             /\ Last(log').status = "finished"
             /\ raised.name # "none" => Last(log').value = VError(raised.message)]_vars

\* a chunk has failed inside the machine and another is being evaluated
C11_Witness ==
  /\ pc = "running"
  /\ isRunning
  /\ log # <<>>
  /\ Last(log).outcome = "error"
  /\ Last(log).value.type = "error"
  /\ Last(log).value.message # ""

\* C12: every chunk that fails, in the tokenizer, parser, resolver, module
\* preload or at runtime inside the machine, is reported to the conductor
\* as "Error: <message>".
C12_FailuresSentWithPrefix ==
  \A i \in DOMAIN log :
    log[i].outcome \in {"rejected", "error"}
      => log[i].sent = "Error: " \o log[i].message

\* an Application whose callee is a foreign closure is the next control item
HostApplicationNext ==
  /\ ApplicationNext
  /\ Len(stash) > Last(control).numOfArgs
  /\ stash[Len(stash) - Last(control).numOfArgs].type = "JsClosure"

\* the host value the marshalling table gives for an interpreter value
TableToHost(v) ==
  CASE v.type = "bigint" -> [js |-> "bigint", value |-> v.value]
    [] v.type = "number" -> [js |-> "number", num |-> v.num, den |-> v.den]
    [] v.type = "string" -> [js |-> "string", svalue |-> v.svalue]
    [] v.type = "bool" -> [js |-> "boolean", bvalue |-> v.bvalue]
    [] OTHER -> [js |-> "null"]

\* the interpreter value the marshalling table gives for a host value
TableToPy(h) ==
  CASE h.js = "bigint" -> VBigInt(h.value)
    [] h.js = "number" -> [type |-> "number", num |-> h.num, den |-> h.den]
    [] h.js = "string" -> VString(h.svalue)
    [] h.js = "boolean" -> VBool(h.bvalue)
    [] OTHER -> VUndefined

\* C13: Application on a foreign closure whose host function returns a
\* passable value (integer, number, string, boolean or null) invokes the
\* host function once on the unmarshalled arguments and pushes the
\* marshalled result onto the stash, without raising.
C13_HostCallPushesResult ==
  [][LET n == Last(control).numOfArgs
         args == PoppedArgs(stash, n)
         callable == stash[Len(stash) - n]
         jsArgument == [i \in 1..n |-> TableToHost(args[i])]
         result == HostApply(callable.func, jsArgument)
     IN (/\ HostApplicationNext
         /\ \A i \in 1..n : args[i].type \in {"bigint", "number", "string", "bool"}
         /\ result.js \in {"bigint", "number", "string", "boolean", "null"})
        => /\ raised'.name = "none"
           /\ hostCalls' = Append(hostCalls, [func |-> callable.func,
                                              jsArgument |-> jsArgument,
                                              result |-> result,
                                              returned |-> TableToPy(result)])
           /\ stash' = Append(SubSeq(stash, 1, Len(stash) - n - 1), TableToPy(result))]_vars

\* C14: unmarshalFromPy maps BigInt, Float, String and Bool to their
\* payload and Undefined to null, and raises on Complex and every other
\* value; marshalToPy maps host integers, numbers, strings, booleans and
\* null back to the same interpreter kinds.
C14_MarshallingTable ==
  [][LET n == Last(control).numOfArgs
         args == PoppedArgs(stash, n)
     IN HostApplicationNext
        => /\ (\A i \in 1..n :
                 args[i].type \in {"bigint", "number", "string", "bool", "undefined"})
                => /\ Len(hostCalls') = Len(hostCalls) + 1
                   /\ Last(hostCalls').jsArgument = [i \in 1..n |-> TableToHost(args[i])]
                   /\ Last(hostCalls').returned = TableToPy(Last(hostCalls').result)
           /\ (\E i \in 1..n :
                 args[i].type \notin {"bigint", "number", "string", "bool", "undefined"})
                => /\ hostCalls' = hostCalls
                   /\ raised'.name # "none"]_vars

\* C15: for any interleaving of loadModuleBundle calls the cache entry of a
\* module name is written once and never changed: at most one fetch is
\* issued per name and every call for that name, concurrent or later, gets
\* the promise that is in the cache.
C15_ModuleCacheWrittenOnce ==
  [][/\ \A n \in DOMAIN moduleCache :
          n \in DOMAIN moduleCache' /\ moduleCache'[n] = moduleCache[n]
     /\ \A p, q \in DOMAIN promises' :
          promises'[p].module = promises'[q].module => p = q
     /\ \A n \in DOMAIN moduleCache' : promises'[moduleCache'[n]].module = n
     /\ \A i \in DOMAIN waiting' :
          \A j \in DOMAIN waiting'[i].awaited :
            waiting'[i].awaited[j] = moduleCache'[waiting'[i].moduleNames[j]]]_vars

\* two evaluateChunk calls are suspended on the promise of the same module
C15_Witness ==
  \E i, j \in DOMAIN waiting :
    /\ i # j
    /\ waiting[i].awaited[1] = waiting[j].awaited[1]
    /\ waiting[i].moduleNames[1] \in DOMAIN moduleCache

\* C16: module fetches never interleave with the evaluation of other
\* chunks: while a fetch started by preloadModules for one evaluateChunk
\* call is pending, no other evaluateChunk call on the context is inside
\* PyEvaluate.
C16_NoEvaluationWhileFetchPending ==
  pc = "running" => \A p \in DOMAIN promises : promises[p].state # "pending"

\* the interpreter state of the context evaluator e uses
ContextState(e) ==
  IF evaluators[e].context = DefaultContext
    THEN << stash, environments, frames, output, errors, objectCount, envStepsTotal >>
    ELSE << >>

\* context.nativeStorage.conductor of the context evaluator e uses
ContextConductor(e) ==
  IF evaluators[e].context = DefaultContext THEN conductor ELSE 0

\* C17: interpreter state is not shared between PyEvaluator instances: the
\* context of an instance stays tied to that instance's conductor, and a
\* step of the evaluation of a chunk on one instance leaves the stash,
\* environments, output and counters of every other instance as they were.
C17_EvaluatorsDoNotShareState ==
  [][/\ \A e \in DOMAIN evaluators' :
          ContextConductor(e)' = evaluators'[e].conductor
     /\ \A e \in DOMAIN evaluators :
          (pc = "running" /\ e # evaluator) => ContextState(e)' = ContextState(e)]_vars

CountTokens(type) == Cardinality({i \in DOMAIN tokens : tokens[i] = type})

\* the source is indented in multiples of 4
WellIndented == \A i \in DOMAIN source : source[i] % 4 = 0

\* C18: when scanEverything has returned the tokens of a source indented in
\* multiples of 4, it has emitted as many INDENT tokens as DEDENT tokens
C18_IndentsBalanceDedents ==
  (tokPc = "done" /\ WellIndented) => CountTokens("INDENT") = CountTokens("DEDENT")

\* scanEverything has returned or thrown
TokenizerStopped == tokPc \in {"done", "error"}

\* C19: scanEverything comes to an end on every source; when it returns, the
\* indent stack is back to its bottom entry and the tokens end with the
\* only ENDMARKER
C19_ScanEverythingTerminates ==
  <>(/\ TokenizerStopped
     /\ tokPc = "done" =>
          /\ indentStack = << 0 >>
          /\ Last(tokens) = "ENDMARKER"
          /\ CountTokens("ENDMARKER") = 1)

\* scanToken is about to scan the newline that ends a line, and the next
\* line is indented (in multiples of 4) less than the top of the indent
\* stack, by a number of spaces that is no entry of the stack
DedentToUnknownLevel ==
  /\ tokPc = "scan"
  /\ ~isAtEnd
  /\ current % 2 = 0
  /\ IF indentStack = <<>>
       THEN FALSE
       ELSE LET acc == accLeadingWhiteSpace(current \div 2)
            IN /\ acc % 4 = 0
               /\ acc < Last(indentStack)
               /\ \A k \in DOMAIN indentStack : indentStack[k] # acc

\* C20: a dedent to an indentation that is no entry of the indent stack makes
\* scanToken throw InconsistentIndentError
C20_UnknownDedentIsAnError ==
  [][DedentToUnknownLevel => (tokPc' = "error" /\ tokError' = "InconsistentIndentError")]_vars

\* the characters of the source that are neither blank nor part of a comment
RECURSIVE Significant(_)
Significant(i) ==
  IF i > Len(source) \/ source[i] = "#" THEN <<>>
  ELSE IF source[i] \in {" ", "\n"} THEN Significant(i + 1)
  ELSE << source[i] >> \o Significant(i + 1)

\* the lexemes of the tokens from the i-th on that are not layout tokens, in order
RECURSIVE Lexemes(_)
Lexemes(i) ==
  IF i > Len(tokens) THEN <<>>
  ELSE IF tokens[i].type \in {"INDENT", "DEDENT", "NEWLINE", "ENDMARKER"} THEN Lexemes(i + 1)
  ELSE tokens[i].lexeme \o Lexemes(i + 1)

\* C21: when a source has been tokenized, the lexemes of its non-layout
\* tokens, concatenated, are the source without its blanks and comments
C21_TokenIntegrity ==
  tokPc = "done" => Lexemes(1) = Significant(1)

(***************************************************************************)
(* Binary operations of the generated chunks                               *)
(***************************************************************************)
\* the binary expression of the chunk being run
BinExpr == Program(chunk).statements[1].expression

\* the expression writes a whole number: a BigInt literal or its negation
IsIntExpr(e) == e.kind = "BigIntLiteral" \/ (e.kind = "Unary" /\ e.right.kind = "BigIntLiteral")

IntOf(e) == IF e.kind = "BigIntLiteral" THEN e.value ELSE -e.right.value

\* the BinaryOperation instruction of a generated chunk has been executed
\* and the statement after it has not
BinaryDone ==
  /\ chunk \in BinaryChunks
  /\ pc = "running"
  /\ control = << SimpleExpr(StrLiteral("after")) >>

\* C22: for BigInt a and b, b not zero, the results of a // b and a % b
\* satisfy a = (a // b) * b + (a % b), and a % b is zero or has the sign of b
C22_FloorDivMod ==
  (BinaryDone /\ BinExpr.operator \in {"//", "%"}
     /\ IsIntExpr(BinExpr.left) /\ IsIntExpr(BinExpr.right) /\ IntOf(BinExpr.right) # 0) =>
    /\ raised.name = "none"
    /\ stash # <<>>
    /\ Last(stash).type = "bigint"
    /\ LET a == IntOf(BinExpr.left)
           b == IntOf(BinExpr.right)
           q == IF BinExpr.operator = "//" THEN Last(stash).value
                ELSE BigIntArith("//", a, b).value.value
           r == IF BinExpr.operator = "%" THEN Last(stash).value
                ELSE BigIntArith("%", a, b).value.value
       IN /\ a = q * b + r
          /\ r = 0 \/ ((r < 0) <=> (b < 0))

\* -3 // 2 has been computed and is -2
C22_Witness ==
  /\ BinaryDone
  /\ BinExpr = Binary(Unary("-", BigIntLiteral(3)), "//", BigIntLiteral(2))
  /\ stash = << VBigInt(-2) >>

IsBoolExpr(e) == e.kind = "Literal" /\ e.jstype = "boolean"

\* C23: for +, -, *, //, % and ** with a non-negative exponent, when each
\* operand is a Bool or a BigInt the result is a BigInt
C23_BoolArithmeticIsInteger ==
  (BinaryDone /\ raised.name = "none"
     /\ BinExpr.operator \in {"+", "-", "*", "//", "%", "**"}
     /\ (IsIntExpr(BinExpr.left) \/ IsBoolExpr(BinExpr.left))
     /\ (IsIntExpr(BinExpr.right) \/ IsBoolExpr(BinExpr.right))
     /\ (BinExpr.operator = "**" /\ IsIntExpr(BinExpr.right) => IntOf(BinExpr.right) >= 0)) =>
    /\ stash # <<>>
    /\ Last(stash).type = "bigint"

\* the number an operand expression writes, as a fraction: a Bool is 1 or 0
IsNumericExpr(e) ==
  \/ IsIntExpr(e)
  \/ IsBoolExpr(e)
  \/ e.kind = "Literal" /\ e.jstype = "number"
  \/ e.kind = "Unary" /\ e.right.kind = "Literal" /\ e.right.jstype = "number"

NumOf(e) ==
  CASE IsIntExpr(e) -> [num |-> IntOf(e), den |-> 1]
    [] IsBoolExpr(e) -> [num |-> IF e.bvalue THEN 1 ELSE 0, den |-> 1]
    [] e.kind = "Literal" -> [num |-> e.num, den |-> e.den]
    [] OTHER -> [num |-> -e.right.num, den |-> e.right.den]

\* l < r, l = r for fractions with positive denominators
Less(l, r) == l.num * r.den < r.num * l.den

Same(l, r) == l.num * r.den = r.num * l.den

\* C24: ==, !=, <, <=, > and >= applied to a Bool and a BigInt, Float or Bool
\* compare the Bool as the integer 0 or 1
C24_BoolComparesAsInteger ==
  (BinaryDone /\ BinExpr.operator \in {"==", "!=", "<", "<=", ">", ">="}
     /\ (IsBoolExpr(BinExpr.left) \/ IsBoolExpr(BinExpr.right))
     /\ IsNumericExpr(BinExpr.left) /\ IsNumericExpr(BinExpr.right)) =>
    LET l == NumOf(BinExpr.left)
        r == NumOf(BinExpr.right)
    IN /\ raised.name = "none"
       /\ stash = << VBool(CASE BinExpr.operator = "==" -> Same(l, r)
                            [] BinExpr.operator = "!=" -> ~Same(l, r)
                            [] BinExpr.operator = "<" -> Less(l, r)
                            [] BinExpr.operator = "<=" -> Less(l, r) \/ Same(l, r)
                            [] BinExpr.operator = ">" -> Less(r, l)
                            [] BinExpr.operator = ">=" -> Less(r, l) \/ Same(l, r)) >>

\* the chunk being run divides a BigInt, Float or Bool by BigInt 0, Float 0.0
\* or False, and its BinaryOperation instruction has been executed
DividedByZero ==
  /\ BinaryDone \/ (chunk \in BinaryChunks /\ pc = "idle" /\ log # <<>>)
  /\ BinExpr.operator \in {"/", "//", "%"}
  /\ IsNumericExpr(BinExpr.left)
  /\ IsNumericExpr(BinExpr.right)
  /\ NumOf(BinExpr.right).num = 0

\* C25: /, // and % with a numeric left operand and a right operand equal
\* to zero fail with ZeroDivisionError: nothing is pushed on the stash and
\* the statement after the division stays on the control, never executed
C25_DivisionByZeroFails ==
  DividedByZero =>
    /\ raised.name = "ZeroDivisionError"
    /\ errors # <<>>
    /\ Last(errors) = raised
    /\ stash = <<>>
    /\ control = << SimpleExpr(StrLiteral("after")) >>
    /\ log # <<>> => log[1].outcome = "error" /\ log[1].message = raised.message

\* the run of   1.5 % False   has ended, with an error
C25_Witness ==
  /\ DividedByZero
  /\ BinExpr.operator = "%"
  /\ IsBoolExpr(BinExpr.right)
  /\ BinExpr.left.kind = "Literal" /\ BinExpr.left.jstype = "number"
  /\ pc = "idle"
  /\ log # <<>>
  /\ log[1].outcome = "error"

\* the chunk being run divides by 0j, or divides a complex number by a
\* BigInt, Float or Bool zero, and its BinaryOperation instruction has been
\* executed
DividedByComplexZero ==
  /\ BinaryDone \/ (chunk \in BinaryChunks /\ pc = "idle" /\ log # <<>>)
  /\ BinExpr.operator = "/"
  /\ \/ BinExpr.right = Complex(VNumber(0, 1), VNumber(0, 1))
        /\ (IsNumericExpr(BinExpr.left) \/ BinExpr.left.kind = "Complex")
     \/ BinExpr.left.kind = "Complex"
        /\ IsNumericExpr(BinExpr.right) /\ NumOf(BinExpr.right).num = 0

\* C26: dividing a complex or complex-promoted value by 0+0j raises
\* ZeroDivisionError as the other divisions by zero do: the error is recorded
\* in context.errors by the runtime error handler and its message is a
\* ZeroDivisionError message
C26_ComplexDivisionByZero ==
  DividedByComplexZero =>
    /\ raised.name = "ZeroDivisionError"
    /\ raised.message = ZeroDivisionError("/").message
    /\ errors # <<>>
    /\ Last(errors) = raised

(***************************************************************************)
(* Evaluation order, read from what the chunks of OrderChunks print        *)
(***************************************************************************)
\* the numbers printed by the chunks of OrderChunks when the left operand,
\* the callee, the arguments from left to right and the condition come first
\* and only the selected branch is evaluated
CanonicalOrder ==
  << << 1, 2 >>, << 1, 2 >>, << 1, 2 >>, << 0, 1, 2 >>,
     << 1, 2 >>, << 0, 3 >>, << 1, 2 >>, << 0, 3 >> >>

\* the output of printing the numbers of ns, one per line
RECURSIVE Printed(_)
Printed(ns) == IF ns = <<>> THEN "" ELSE ToString(Head(ns)) \o "\n" \o Printed(Tail(ns))

\* a chunk of OrderChunks is being run or has been run
OrderChunkRun == chunk >= FirstOrder /\ (pc = "running" \/ log # <<>>)

\* C27: the machine evaluates the left operand before the right one, the
\* callee and then the arguments from left to right before the application,
\* the condition before a branch, and only the selected branch: what has
\* been printed is always a beginning of the canonical order, and all of it
\* once the run has ended
C27_EvaluationOrder ==
  OrderChunkRun =>
    LET expected == CanonicalOrder[chunk - FirstOrder + 1]
    IN /\ \E n \in 0..Len(expected) : output = Printed(SubSeq(expected, 1, n))
       /\ log # <<>> => output = Printed(expected)

\* the run of   k(0)(f(1), f(2))   has ended and has printed 0, 1 and 2
C27_Witness ==
  /\ OrderChunkRun
  /\ chunk = FirstOrder + 3
  /\ log # <<>>
  /\ output = "0\n1\n2\n"

Resolved(i) == chunk = FirstResolver + i - 1 /\ log # <<>>

\* for the twelve chunks with a nonlocal statement: x is declared in a frame
\* that encloses the frame of the statement (inFile or inParent)
DeclaredInAncestor ==
  << FALSE, FALSE, TRUE, TRUE, TRUE, TRUE, TRUE, TRUE, FALSE, FALSE, TRUE, TRUE >>

\* C29: the resolver accepts   nonlocal x   exactly when x is declared in a
\* proper ancestor of the current frame: the parent, the grandparent and so
\* on, not the current frame
C29_NonlocalNeedsAncestor ==
  \A i \in DOMAIN DeclaredInAncestor :
    Resolved(i) => ((log[1].outcome # "rejected") <=> DeclaredInAncestor[i])

\* C30: a name assigned once in the body of an if statement and once in the
\* body of its else is not rejected with NameReassignmentError
C30_BranchesHaveOwnFrames ==
  \A i \in (Len(DeclaredInAncestor) + 1)..(Len(DeclaredInAncestor) + 4) :
    Resolved(i) => log[1].message # NameReassignmentError("y").message

(***************************************************************************)
(* The machine on the chunks of MachineChunks                              *)
(***************************************************************************)
\* the machine is about to execute the control item on top
AboutToExecute == pc = "running" /\ control # <<>> /\ raised.name = "none"

\* a Return statement is the next control item and a Reset lies beneath it
ReturnInCall ==
  /\ AboutToExecute
  /\ ~IsInstr(Last(control))
  /\ Last(control).kind = "Return"
  /\ \E i \in DOMAIN control : IsReset(control[i])

\* the position of the innermost Reset of the control
InnermostReset ==
  CHOOSE i \in DOMAIN control :
    IsReset(control[i]) /\ \A j \in DOMAIN control : IsReset(control[j]) => j <= i

\* C32: Return in a call discards every control item above the innermost
\* Reset, leaves that Reset and everything beneath it as it was, then pushes
\* the return expression on the control or, when there is none, Undefined on
\* the stash; the frame of the call is still the current one
C32_ReturnUnwindsToReset ==
  [][ReturnInCall =>
       LET value == Last(control).value
       IN /\ control' = SubSeq(control, 1, InnermostReset)
                          \o (IF value.kind # "null" THEN << value >> ELSE <<>>)
          /\ stash' = (IF value.kind # "null" THEN stash ELSE Append(stash, VUndefined))
          /\ environments' = environments
          /\ calls # <<>> /\ environments'[1] = Last(calls).frame]_vars

\* in the fourth chunk, f(0) has executed   return   in the body of the if:
\* the Reset is on top of the control, the statement q = 3 and the
\* EndOfFunctionBody are gone and Undefined is on the stash
C32_Witness ==
  /\ pc = "running"
  /\ chunk = FirstMachine + 3
  /\ calls # <<>>
  /\ control # <<>> /\ IsReset(Last(control))
  /\ stash = << VUndefined >>
  /\ "q" \notin DOMAIN frames[environments[1]].head

\* C33: the frame of a call has as tail the environment its closure
\* captured, whatever frame the call is made from, and a free variable of
\* the body is looked up along that chain: the second chunk gives the x of
\* the chunk, not the x of the caller h, and the third the a of mk(5), not
\* the a of use(7)
C33_FrameTailIsCapturedEnvironment ==
  /\ \A i \in DOMAIN calls :
       frames[calls[i].frame].tail = frames[calls[i].frame].closure.environment
  /\ \A i \in DOMAIN log :
       /\ log[i].chunk = FirstMachine + 1 => log[i].sent = "1"
       /\ log[i].chunk = FirstMachine + 2 => log[i].sent = "5"

\* g, called from h, has looked x up: its frame's tail is the global frame,
\* not the frame of h, where x is 2, and the value on the stash is 1
C33_Witness ==
  /\ pc = "running"
  /\ chunk = FirstMachine + 1
  /\ Len(calls) = 2
  /\ frames[Last(calls).frame].tail = GlobalFrame
  /\ Last(calls).caller # GlobalFrame
  /\ frames[Last(calls).caller].head["x"] = VBigInt(2)
  /\ stash # <<>> /\ Last(stash) = VBigInt(1)

\* an Assignment instruction is the next control item and the stash holds
\* the value
AssignmentNext ==
  /\ AboutToExecute
  /\ IsInstr(Last(control))
  /\ Last(control).instrType = "Assignment"
  /\ stash # <<>>

\* C34: Assignment pops one value and binds its symbol to it in the head of
\* the current frame; every other name of that frame and every other frame
\* are as before
C34_AssignmentBindsInCurrentFrame ==
  [][AssignmentNext =>
       LET symbol == Last(control).symbol
           env == environments[1]
       IN /\ stash' = Front(stash)
          /\ environments' = environments
          /\ DOMAIN frames' = DOMAIN frames
          /\ \A f \in DOMAIN frames : f # env => frames'[f] = frames[f]
          /\ DOMAIN frames'[env].head = DOMAIN frames[env].head \cup {symbol}
          /\ frames'[env].head[symbol] = Last(stash)
          /\ \A n \in DOMAIN frames[env].head :
               n # symbol => frames'[env].head[n] = frames[env].head[n]
          /\ frames'[env].tail = frames[env].tail]_vars

\* h has assigned 2 to x in its frame and the x of the chunk is still 1
C34_Witness ==
  /\ pc = "running"
  /\ chunk = FirstMachine + 1
  /\ environments[1] # GlobalFrame
  /\ "x" \in DOMAIN frames[environments[1]].head
  /\ frames[environments[1]].head["x"] = VBigInt(2)
  /\ frames[GlobalFrame].head["x"] = VBigInt(1)

\* C36: no error is recovered inside the evaluator: while the machine goes
\* on, no Error value is on the stash or bound to a name
C36_NoErrorValueWhileRunning ==
  AboutToExecute =>
    /\ \A i \in DOMAIN stash : stash[i].type # "error"
    /\ \A f \in DOMAIN frames :
         \A n \in DOMAIN frames[f].head : frames[f].head[n].type # "error"

\* the statements and expressions of the grammar that the chunks 10 to 18
\* are made of
GrammarKinds ==
  { "Pass", "While", "For", "Break", "Continue", "Assert", "Global", "NonLocal",
    "MultiLambda" }

\* C37: on a program that passed the resolver the loop of the machine never
\* fails with 'Unknown Python AST node type'
C37_EveryNodeHasAnEvaluator ==
  \A k \in GrammarKinds : raised.message # "Unknown Python AST node type: " \o k

\* C38: a program that passed the resolver never fails at runtime with a
\* NameError for a name of the resolver's global environment
C38_BuiltInNamesAreBound ==
  \A n \in ResolverGlobalNames : raised # NameError(n)

\* an Application is the next control item, its callee is a user closure
\* and the number of arguments is not the number of parameters
ArityMismatch ==
  /\ AboutToExecute
  /\ IsInstr(Last(control))
  /\ Last(control).instrType = "Application"
  /\ Len(stash) > Last(control).numOfArgs
  /\ stash[Len(stash) - Last(control).numOfArgs].type = "PyClosure"
  /\ Len(stash[Len(stash) - Last(control).numOfArgs].node.parameters)
       # Last(control).numOfArgs

\* C39: a call of a user closure with too few or too many arguments fails
\* and creates no frame
C39_ArityIsChecked ==
  [][ArityMismatch => (raised'.name # "none" /\ frames' = frames)]_vars

(***************************************************************************)
(* The errors of loadModuleBundle                                          *)
(***************************************************************************)
\* C40: a load whose bundle could not be fetched (the request is rejected or
\* the response is not ok) fails with ModuleConnectionError, and a load fails
\* with ModuleInternalError only when the code of the fetched bundle threw
C40_ModuleErrorsTellTheCause ==
  \A p \in DOMAIN promises :
    /\ promises[p].fetched \in {"notOk", "rejected"}
         => promises[p].error.name = "ModuleConnectionError"
    /\ promises[p].error.name = "ModuleInternalError" => promises[p].fetched = "throws"

(***************************************************************************)
(* Chunks given as tokens: the parser and the failures before the machine  *)
(***************************************************************************)
\* the source of the k-th chunk of SourceChunks is one statement
\*   NAME ':' test '=' test NEWLINE
IsAnnAssignSource(k) ==
  LET toks == SourceChunks[k].tokens
  IN /\ Len(toks) > 2
     /\ toks[1].type = "NAME"
     /\ toks[2].type = "COLON"

\* the expression that the tokens from the a-th to the b-th of the k-th
\* chunk are, as the rule test parses them
ExpressionOf(k, a, b) ==
  LET toks == SourceChunks[k].tokens
  IN Parser("test", [tokens |-> Append(SubSeq(toks, a, b), toks[Len(toks)]),
                     current |-> 1, node |-> [kind |-> "null"], array |-> <<>>,
                     error |-> NoError]).node

\* C31: a chunk that is one statement   NAME ':' test '=' test NEWLINE   has
\* been parsed to one AnnAssign node with the name, the value and the
\* annotation of the statement
C31_AnnAssignIsParsed ==
  \A i \in DOMAIN log :
    LET k == log[i].chunk - FirstSource + 1
        toks == SourceChunks[k].tokens
        eq == CHOOSE j \in DOMAIN toks : toks[j].type = "EQUAL"
        parsed == parse(toks)
    IN (log[i].chunk >= FirstSource /\ IsAnnAssignSource(k)) =>
         /\ parsed.error = NoError
         /\ parsed.node = FileInput(<< [kind |-> "AnnAssign",
                                        name |-> toks[1].lexeme,
                                        value |-> ExpressionOf(k, eq + 1, Len(toks) - 2),
                                        ann |-> ExpressionOf(k, 3, eq - 1)] >>)

\* the error with which tokenizing, parsing or resolving the source chunk c
\* fails, NoError when none does
Failure(c) ==
  LET src == SourceChunks[c - FirstSource + 1]
      parsed == parse(src.tokens)
  IN IF src.error.name # "none" THEN src.error
     ELSE IF parsed.error.name # "none" THEN parsed.error
     ELSE Resolver(parsed.node)

\* the step taken is evaluateChunk called with chunk c
Submitted(c) ==
  /\ pc = "idle"
  /\ Len(waiting') >= Len(waiting)
  /\ \/ pc' = "running" /\ chunk' = c
     \/ Len(log') = Len(log) + 1 /\ Last(log').chunk = c
     \/ Len(waiting') > Len(waiting) /\ Last(waiting').chunk = c

\* C35: when tokenizing, parsing or resolving a chunk fails, no module is
\* fetched and the machine does not start: the control, the stash, the
\* environments, the output and the errors are as before the chunk, and the
\* failure is sent to the chunk driver as "Error: " and its message
C35_FailedChunkLeavesContext ==
  [][\A c \in FirstSource..(FirstSource + Len(SourceChunks) - 1) :
       (Submitted(c) /\ Failure(c).name # "none") =>
         /\ UNCHANGED << control, stash, environments, frames, output, errors,
                         objectCount, steps, isRunning >>
         /\ UNCHANGED << moduleCache, promises, waiting >>
         /\ pc' = "idle"
         /\ log' = Append(log, Last(log'))
         /\ Last(log').outcome = "rejected"
         /\ Last(log').sent = "Error: " \o Failure(c).message]_vars

\* after   x = 5; x   the chunk   from m import one; y   has been rejected by
\* the resolver: nothing is fetched, x is still bound and the stash still
\* holds the 5 of the first chunk
C35_Witness ==
  /\ Len(log) = 2
  /\ log[1].outcome = "finished"
  /\ log[2].chunk = FirstSource + 12
  /\ log[2].sent = "Error: NameNotFoundError: y"
  /\ promises = <<>>
  /\ pc = "idle"
  /\ stash = << VBigInt(5) >>
  /\ frames[GlobalFrame].head["x"] = VBigInt(5)
====
